---- MODULE Spec2Model ----
(***************************************************************************)
(* Session / MFA authority of the REST API: bearer sessions of MasterUsers *)
(* and Profiles (login, validation middleware, logout, global revocation)  *)
(* and the step-up OTP flow (verifyOTP with its cache-backed replay        *)
(* blacklist, wrong-attempt counter and security-alert lock).              *)
(*                                                                         *)
(* Every request is a slot of `req`; a slot advances one awaited I/O       *)
(* operation per step, so that requests interleave exactly where the       *)
(* handlers suspend.                                                       *)
(***************************************************************************)
EXTENDS Integers, Sequences, FiniteSets, TLC

\* ---------------------------------------------------------------- bounds
MaxJti == 2          \* session tokens issued in one behaviour
MaxCode == 2         \* forgot-password codes generated in one behaviour
MaxTicks == 1        \* clock advances in one behaviour
MaxRequests == 5     \* verifyOTP requests started in one behaviour
MaxOverlaps == 1     \* verifyOTP requests arriving while another is in flight

Reqs == {1, 2}               \* request slots (concurrent requests)
MasterUserPKs == {1, 2}      \* masteruserPK of the registered MasterUsers
ProfilePKs == {1, 2}         \* profilePK of the Profiles (2 is created later, if at all)
Passwords == {"pwA", "pwB"}  \* plaintext passwords clients submit

NULL == 0

\* ------------------------------------------------------ program constants
MasterUserTokenMinutes == 525600
ProfileTokenMinutes == 480
StepUpTokenMinutes == 900
BlacklistTTL == 120
ForgotPasswordTTL == 7200
AskedOTPTTL == 30
OTPAttemptsTTL == 86400
OTPSessionTTL == 900
SecurityAlertLockTTL == 900
MaxOTPAttempts == 3
MaxForgotPasswordAttempts == 2
TOTPStep == 30

VARIABLES
  now,          \* wall clock, seconds (Date.now())
  ticks,        \* number of clock advances so far
  masteruser,   \* table masteruser: masteruserPK -> row
  profile,      \* table profile: profilePK -> row
  session,      \* table session: set of rows
  edges,        \* table masteruser_to_profile: set of rows
  nextEdgePK,   \* serial of masteruser_to_profile
  cache,        \* table cache: key -> [value, updatedAt]
  tokens,       \* bearer tokens issued so far (what clients hold)
  nextJti,      \* source of fresh randomUUID() values
  nextCode,     \* source of fresh randomBytes() values
  req,          \* request slots
  deletedJtis,  \* history: jtis whose Session row has been deleted
  revoked,      \* history: jtis issued to a principal before a completed global revocation
  started,      \* history: number of verifyOTP requests started
  accepts,      \* history: accepted OTP submissions
  wrongs,       \* history: recorded wrong OTP submissions
  alerts,       \* history: security-alert notifications sent
  overlaps,     \* history: number of requests that arrived during another
  asked,        \* history: sendOTP requests answered 202
  delivered,    \* history: codes sent out by sendOTP
  created,      \* history: Profiles created by createProfile, with their creator
  denials,      \* history: failures answered by the delegated-access checks
  resetMails    \* history: password-reset mails sent by forgotPassword

vars == <<now, ticks, masteruser, profile, session, edges, nextEdgePK, cache,
          tokens, nextJti, nextCode, req, deletedJtis, revoked, started,
          accepts, wrongs, alerts, overlaps, asked, delivered, created,
          denials, resetMails>>

dbVars == <<masteruser, profile, session, edges, nextEdgePK, tokens, nextJti,
            nextCode, deletedJtis, revoked>>
otpHist == <<started, accepts, wrongs, alerts, overlaps>>
hist == <<asked, delivered, created, denials, resetMails>>

\* ------------------------------------------------------------ identifiers
\* masteruserID / profileID are UUIDs, distinct from the serial keys.
masteruserID(pk) == 10 + pk
profileID(pk) == 20 + pk
MasterUserIDs == {masteruserID(pk) : pk \in MasterUserPKs}
ProfileIDs == {profileID(pk) : pk \in ProfilePKs}

\* ------------------------------------------------------------- passwords
hashPassword(p) == <<"argon2", p>>
verifyPassword(hash, p) == hash = hashPassword(p)
safeCompare(a, b) == a = b

\* --------------------------------------------------------- decimal strings
\* Cache values are strings; counters are written with toString() and read
\* back with unary plus / Number.parseInt(_, 10).
RECURSIVE NumToString(_)
NumToString(n) ==
  IF n < 10 THEN <<n>> ELSE NumToString(n \div 10) \o <<n % 10>>

RECURSIVE ParseInt(_)
ParseInt(s) ==
  IF Len(s) = 0 THEN 0
  ELSE 10 * ParseInt(SubSeq(s, 1, Len(s) - 1)) + s[Len(s)]

\* ------------------------------------------------------------------ cache
NoValue == <<>>   \* null

getCacheValue(key, ttl) ==
  IF key \in DOMAIN cache /\ now - cache[key].updatedAt < ttl
  THEN cache[key].value
  ELSE NoValue

Truthy(v) == v # NoValue

CachePut(c, key, value) ==
  [k \in (DOMAIN c) \cup {key} |->
     IF k = key THEN [value |-> value, updatedAt |-> now] ELSE c[k]]

setCacheValue(key, value) == cache' = CachePut(cache, key, value)

\* ----------------------------------------------------------------- tokens
signJWS(jti, sub, minutes) ==
  [jti |-> jti, sub |-> sub, exp |-> now + minutes * 60, sig |-> TRUE]

verifyToken(t) == t.sig /\ now < t.exp

NoToken == [jti |-> NULL, sub |-> NULL, exp |-> 0, sig |-> FALSE]

\* A client presents no token, a token it was issued, or a token whose
\* signature does not verify.
Presentable == {NoToken} \cup tokens \cup {[t EXCEPT !.sig = FALSE] : t \in tokens}

\* ------------------------------------------------------------ repositories
MasterUserByID(id) ==
  {pk \in MasterUserPKs : masteruser[pk].exists /\ masteruserID(pk) = id}
ProfileByID(id) ==
  {pk \in ProfilePKs : profile[pk].exists /\ profileID(pk) = id}
MasterUserByCode(code) ==
  {pk \in MasterUserPKs : masteruser[pk].exists
                          /\ masteruser[pk].forgotPasswordCode = code}
ProfileByCode(code) ==
  {pk \in ProfilePKs : profile[pk].exists
                       /\ profile[pk].forgotPasswordCode = code}
SessionByJti(jti) == {s \in session : s.jwtId = jti}

\* session.delete(criteria): removes the matching rows
SessionDelete(rows) ==
  /\ session' = session \ rows
  /\ deletedJtis' = deletedJtis \cup {s.jwtId : s \in rows}

IssuedTo(id) == {t.jti : t \in {u \in tokens : u.sub = id}}

\* ------------------------------------------------------------ request slots
\* What the session middleware found when it looked the token up (recorded
\* next to the decision it took, for the properties below).
NoChk == [row |-> FALSE, tokOk |-> FALSE, principalOk |-> FALSE,
          deleted |-> FALSE, revoked |-> FALSE, banned |-> FALSE]
\* Locals of a handler between two awaits.  For verifyOTP: the Basic
\* credentials (id, otp), the values read from the cache (attempts, cur), the
\* failure to answer with after the counter update (fail), the time of the
\* request's own cache write (at), and what held when the request took the
\* lockout and replay checks (checked, three, hit3, replay).  For sendOTP:
\* the medium and what held at the throttle check (recent, expired).  For the
\* logins: whether the password verified against the row read and the isActive
\* flag of that row (verified, active).  For the Profile handlers: the Profile
\* row (ppk), whether the Ownership Edge was found (had, owned) and the write
\* that failed (fault).
NoLocals ==
  [pk |-> NULL, rid |-> 0, id |-> NULL, otp |-> 0, attempts |-> <<>>,
   cur |-> <<>>, fail |-> 0, at |-> 0, checked |-> "none",
   three |-> FALSE, hit3 |-> FALSE, replay |-> FALSE,
   media |-> "none", recent |-> FALSE, expired |-> FALSE,
   ppk |-> NULL, verified |-> FALSE, active |-> FALSE, had |-> FALSE,
   owned |-> FALSE, fault |-> "none", pw |-> "none"]

Idle ==
  [op |-> "none", pc |-> "idle", status |-> 0,
   muSub |-> NULL, muJti |-> NULL, prSub |-> NULL, prJti |-> NULL,
   mw |-> "none", acc |-> "none", chk |-> NoChk,
   loc |-> NoLocals]

Reply(r, code) == req' = [req EXCEPT ![r].pc = "done", ![r].status = code]

\* Routes behind hasMasterUserSession, and those also behind hasProfileSession.
MasterUserRoutes == {"mu:protected", "mu:logout", "mu:updatePassword",
                     "mu:deactivate", "pr:login", "pr:protected", "pr:logout",
                     "pr:updatePassword", "profile:create", "profile:update",
                     "profile:delete", "profile:get", "mu:delete"}
ProfileRoutes == {"pr:protected", "pr:logout", "pr:updatePassword",
                  "profile:update"}
OpenRoutes == {"mu:login", "mu:forgotPassword", "mu:resetPassword",
               "mu:verifyEmail"}
\* verifyOTP authenticates by its own Basic credentials.
OTPRoutes == {"otp:verify"}
\* Profile forgot/reset password sit behind hasMasterUserSession as well.
ProfileOpenRoutes == {"pr:forgotPassword", "pr:resetPassword"}
Routes == MasterUserRoutes \cup OpenRoutes \cup ProfileOpenRoutes \cup OTPRoutes

FirstStage(op) ==
  IF op \in MasterUserRoutes \cup ProfileOpenRoutes THEN "mu:lookup" ELSE "handler"
AfterMasterUser(op) ==
  IF op \in ProfileRoutes THEN "pr:lookup" ELSE "handler"

\* -------------------------------------------------------- ownership
\* Variant: the edge is looked up by the external ids instead of the keys.
hasAccessToProfile_ByID(mID, pID) ==
  /\ MasterUserByID(mID) # {}
  /\ ProfileByID(pID) # {}
  /\ \E e \in edges : e.masteruserPK = mID /\ e.profilePK = pID

\* services.masteruser.hasAccessToProfile: both principals by external id,
\* then the edge by internal keys; throws when any of the three is missing.
hasAccessToProfile(mID, pID) ==
  /\ MasterUserByID(mID) # {}
  /\ ProfileByID(pID) # {}
  /\ \E e \in edges : /\ e.masteruserPK \in MasterUserByID(mID)
                      /\ e.profilePK \in ProfileByID(pID)

\* The lookup of hasAccessToProfile that comes back empty, if any.
Missing(mID, pID) ==
  IF ProfileByID(pID) = {} THEN "profile"
  ELSE IF MasterUserByID(mID) = {} THEN "masteruser"
  ELSE IF hasAccessToProfile(mID, pID) THEN "none" ELSE "edge"

\* The error a delegated-access check hands to next(): the status and message
\* of an AppError, or the error thrown by the repository.
Deny(r, why, status, message) ==
  denials' = denials \cup
    {[op |-> req[r].op, why |-> why, status |-> status, message |-> message]}

\* ------------------------------------------------- session middleware
\* hasMasterUserSession: 0 when the request may proceed, else the status of
\* the AppError passed to next() (a token that does not verify throws).
\* Variant: the middleware trusts a verified token without looking for its
\* Session row.
hasMasterUserSessionStatus_NoRow(t) ==
  IF t = NoToken THEN 401
  ELSE IF ~verifyToken(t) THEN 401
  ELSE IF MasterUserByID(t.sub) = {} THEN 400
  ELSE IF \E pk \in MasterUserByID(t.sub) : ~masteruser[pk].isActive THEN 403
  ELSE 0

hasMasterUserSessionStatus(t) ==
  IF t = NoToken THEN 401
  ELSE IF ~verifyToken(t) THEN 401
  ELSE IF SessionByJti(t.jti) = {} THEN 401
  ELSE IF MasterUserByID(t.sub) = {} THEN 400
  ELSE IF \E pk \in MasterUserByID(t.sub) : ~masteruser[pk].isActive THEN 403
  ELSE 0

\* Variant: hasProfileSession does not look at the isActive flag.
hasProfileSessionStatus_NoBan(t) ==
  IF t = NoToken THEN 401
  ELSE IF ~verifyToken(t) THEN 401
  ELSE IF SessionByJti(t.jti) = {} THEN 401
  ELSE IF ProfileByID(t.sub) = {} THEN 400
  ELSE 0

hasProfileSessionStatus(t) ==
  IF t = NoToken THEN 401
  ELSE IF ~verifyToken(t) THEN 401
  ELSE IF SessionByJti(t.jti) = {} THEN 401
  ELSE IF ProfileByID(t.sub) = {} THEN 400
  ELSE IF \E pk \in ProfileByID(t.sub) : ~profile[pk].isActive THEN 403
  ELSE 0

Observed(t, principalOk) ==
  [row |-> \E s \in session : s.jwtId = t.jti,
   tokOk |-> t.sig /\ now < t.exp,
   principalOk |-> principalOk,
   deleted |-> t.jti \in deletedJtis,
   revoked |-> t.jti \in revoked,
   banned |-> \/ \E pk \in MasterUserByID(t.sub) : ~masteruser[pk].isActive
              \/ \E pk \in ProfileByID(t.sub) : ~profile[pk].isActive]

\* Variant: the refresh rewrites every row of the Session Store.
SessionRefresh_EveryRow(jti) ==
  session' = {[s EXCEPT !.lastActive = now] : s \in session}

\* session.update({ jwtId }, { lastActive, ... }): rewrites matching rows only
SessionRefresh(jti) ==
  session' = {IF s.jwtId = jti THEN [s EXCEPT !.lastActive = now] ELSE s
              : s \in session}

Start(r, op) ==
  /\ req[r].pc = "idle"
  /\ op \in Routes
  /\ op \in {"mu:login", "pr:login"} =>
       nextJti + Cardinality({q \in Reqs : req[q].op \in {"mu:login", "pr:login"}}) <= MaxJti
  /\ op \in {"mu:forgotPassword", "pr:forgotPassword"} =>
       nextCode + Cardinality({q \in Reqs : req[q].op \in {"mu:forgotPassword", "pr:forgotPassword"}}) <= MaxCode
  /\ req' = [req EXCEPT ![r] = [Idle EXCEPT !.op = op, !.pc = FirstStage(op)]]
  /\ UNCHANGED <<now, ticks, cache, dbVars, otpHist, hist>>

MasterUserLookup(r) ==
  /\ req[r].pc = "mu:lookup"
  /\ \E t \in Presentable :
       LET st == hasMasterUserSessionStatus(t)
           chk == Observed(t, \E pk \in MasterUserPKs :
                                 /\ masteruser[pk].exists
                                 /\ masteruserID(pk) = t.sub
                                 /\ masteruser[pk].isActive)
       IN req' = [req EXCEPT
                    ![r].mw = "mu",
                    ![r].chk = chk,
                    ![r].acc = IF st = 0 THEN "accepted" ELSE "rejected",
                    ![r].muSub = IF st = 0 THEN t.sub ELSE NULL,
                    ![r].muJti = IF st = 0 THEN t.jti ELSE NULL,
                    ![r].status = st,
                    ![r].pc = IF st = 0 THEN "mu:refresh" ELSE "done"]
  /\ UNCHANGED <<now, ticks, cache, dbVars, otpHist, hist>>

\* Variant: the refresh saves the row, inserting it when it is missing.
MasterUserRefresh_Upsert(r) ==
  /\ req[r].pc = "mu:refresh"
  /\ session' = {s \in session : s.jwtId # req[r].muJti} \cup
                  {[jwtId |-> req[r].muJti,
                    masteruserPK |-> CHOOSE pk \in MasterUserPKs :
                                       masteruserID(pk) = req[r].muSub,
                    profilePK |-> NULL, lastActive |-> now]}
  /\ req' = [req EXCEPT ![r].pc = AfterMasterUser(req[r].op),
                         ![r].mw = "none", ![r].acc = "none", ![r].chk = NoChk]
  /\ UNCHANGED <<now, ticks, cache, masteruser, profile, edges, nextEdgePK,
                 tokens, nextJti, nextCode, deletedJtis, revoked, otpHist, hist>>

\* session.update({ jwtId: decoded.payload.jti }, { lastActive, ... })
MasterUserRefresh(r) ==
  /\ req[r].pc = "mu:refresh"
  /\ SessionRefresh(req[r].muJti)
  /\ req' = [req EXCEPT ![r].pc = AfterMasterUser(req[r].op),
                         ![r].mw = "none", ![r].acc = "none", ![r].chk = NoChk]
  /\ UNCHANGED <<now, ticks, cache, masteruser, profile, edges, nextEdgePK,
                 tokens, nextJti, nextCode, deletedJtis, revoked, otpHist, hist>>

ProfileLookup(r) ==
  /\ req[r].pc = "pr:lookup"
  /\ \E t \in Presentable :
       LET st == hasProfileSessionStatus(t)
           chk == Observed(t, \E pk \in ProfilePKs :
                                 /\ profile[pk].exists
                                 /\ profileID(pk) = t.sub
                                 /\ profile[pk].isActive)
       IN req' = [req EXCEPT
                    ![r].mw = "pr",
                    ![r].chk = chk,
                    ![r].acc = IF st = 0 THEN "accepted" ELSE "rejected",
                    ![r].prSub = IF st = 0 THEN t.sub ELSE NULL,
                    ![r].prJti = IF st = 0 THEN t.jti ELSE NULL,
                    ![r].loc.owned = st = 0 /\ hasAccessToProfile(req[r].muSub, t.sub),
                    ![r].status = st,
                    ![r].pc = IF st = 0 THEN "pr:refresh" ELSE "done"]
  /\ UNCHANGED <<now, ticks, cache, dbVars, otpHist, hist>>

ProfileRefresh(r) ==
  /\ req[r].pc = "pr:refresh"
  /\ SessionRefresh(req[r].prJti)
  /\ req' = [req EXCEPT ![r].pc = "handler",
                         ![r].mw = "none", ![r].acc = "none", ![r].chk = NoChk]
  /\ UNCHANGED <<now, ticks, cache, masteruser, profile, edges, nextEdgePK,
                 tokens, nextJti, nextCode, deletedJtis, revoked, otpHist, hist>>

\* ------------------------------------------------------ MasterUser auth
NewSession(jwtId, masteruserPK, profilePK) ==
  [jwtId |-> jwtId, masteruserPK |-> masteruserPK, profilePK |-> profilePK,
   lastActive |-> now]

\* Variant: the login does not look at the isActive flag.
MasterUserLoginCheck_NoBan(r) ==
  /\ req[r].pc = "handler" /\ req[r].op = "mu:login"
  /\ \E pk \in MasterUserPKs \cup {NULL}, pw \in Passwords :
       LET found == pk # NULL /\ masteruser[pk].exists IN
       IF ~found \/ ~verifyPassword(masteruser[pk].password, pw)
       THEN Reply(r, 401)
       ELSE req' = [req EXCEPT ![r].pc = "login:save", ![r].loc.pk = pk,
                                ![r].loc.pw = pw,
                                ![r].loc.verified =
                                  verifyPassword(masteruser[pk].password, pw),
                                ![r].loc.active = masteruser[pk].isActive]
  /\ UNCHANGED <<now, ticks, cache, dbVars, otpHist, hist>>

\* login, up to the point where the session is about to be saved
MasterUserLoginCheck(r) ==
  /\ req[r].pc = "handler" /\ req[r].op = "mu:login"
  /\ \E pk \in MasterUserPKs \cup {NULL}, pw \in Passwords :
       LET found == pk # NULL /\ masteruser[pk].exists IN
       IF ~found \/ ~verifyPassword(masteruser[pk].password, pw)
       THEN Reply(r, 401)
       ELSE IF ~masteruser[pk].isActive
       THEN Reply(r, 403)
       ELSE req' = [req EXCEPT ![r].pc = "login:save", ![r].loc.pk = pk,
                                ![r].loc.pw = pw,
                                ![r].loc.verified =
                                  verifyPassword(masteruser[pk].password, pw),
                                ![r].loc.active = masteruser[pk].isActive]
  /\ UNCHANGED <<now, ticks, cache, dbVars, otpHist, hist>>

\* session.save({ jwtId, masteruserPK, ... }) and the response carrying the jwt
MasterUserLoginSave(r) ==
  /\ req[r].pc = "login:save" /\ req[r].op = "mu:login"
  /\ LET pk == req[r].loc.pk
         jwtId == nextJti
     IN /\ session' = session \cup {NewSession(jwtId, pk, NULL)}
        /\ tokens' = tokens \cup
             {signJWS(jwtId, masteruserID(pk), MasterUserTokenMinutes)}
        /\ nextJti' = nextJti + 1
  /\ Reply(r, 200)
  /\ UNCHANGED <<now, ticks, cache, masteruser, profile, edges, nextEdgePK,
                 nextCode, deletedJtis, revoked, otpHist, hist>>

\* Variant: the logout deletes every session of the MasterUser.
MasterUserLogout_AllDevices(r) ==
  /\ req[r].pc = "handler" /\ req[r].op = "mu:logout"
  /\ SessionDelete({s \in session :
                     \E pk \in MasterUserByID(req[r].muSub) : s.masteruserPK = pk})
  /\ Reply(r, 200)
  /\ UNCHANGED <<now, ticks, cache, masteruser, profile, edges, nextEdgePK,
                 tokens, nextJti, nextCode, revoked, otpHist, hist>>

\* session.delete({ jwtId }) and the 200
MasterUserLogout(r) ==
  /\ req[r].pc = "handler" /\ req[r].op = "mu:logout"
  /\ SessionDelete(SessionByJti(req[r].muJti))
  /\ Reply(r, 200)
  /\ UNCHANGED <<now, ticks, cache, masteruser, profile, edges, nextEdgePK,
                 tokens, nextJti, nextCode, revoked, otpHist, hist>>

\* Variant: the revocation spares the most recent session of the MasterUser.
MasterUserSessions_KeepNewest(pk) ==
  {s \in session : /\ s.masteruserPK = pk
                    /\ \E o \in session : o.masteruserPK = pk /\ o.jwtId > s.jwtId}

\* The rows a global revocation of MasterUser pk deletes.
MasterUserSessions(pk) == {s \in session : s.masteruserPK = pk}

MasterUserUpdatePassword(r) ==
  /\ req[r].pc = "handler" /\ req[r].op = "mu:updatePassword"
  /\ \E currentPassword \in Passwords, newPassword \in Passwords,
        confirmPassword \in Passwords :
       LET found == MasterUserByID(req[r].muSub) IN
       IF found = {}
       THEN Reply(r, 404) /\ UNCHANGED dbVars
       ELSE LET pk == CHOOSE x \in found : TRUE IN
         IF ~verifyPassword(masteruser[pk].password, currentPassword)
         THEN Reply(r, 401) /\ UNCHANGED dbVars
         ELSE IF ~safeCompare(newPassword, confirmPassword)
         THEN Reply(r, 401) /\ UNCHANGED dbVars
         ELSE /\ masteruser' = [masteruser EXCEPT
                                  ![pk].password = hashPassword(newPassword)]
              /\ SessionDelete(MasterUserSessions(pk))
              /\ revoked' = revoked \cup IssuedTo(masteruserID(pk))
              /\ Reply(r, 200)
              /\ UNCHANGED <<profile, edges, nextEdgePK, tokens, nextJti, nextCode>>
  /\ UNCHANGED <<now, ticks, cache, otpHist, hist>>

ForgotPasswordKey(id) == <<"forgot-password-attempts", id>>

\* setForgotPasswordAttempts(id): read, then write '1' or the incremented value
ForgotPasswordAttemptsNext(id) ==
  LET currentAttempts == getCacheValue(ForgotPasswordKey(id), ForgotPasswordTTL) IN
  IF currentAttempts = NoValue THEN NumToString(1)
  ELSE NumToString(ParseInt(currentAttempts) + 1)

ForgotPasswordBlocked(id) ==
  LET attempts == getCacheValue(ForgotPasswordKey(id), ForgotPasswordTTL) IN
  Truthy(attempts) /\ ParseInt(attempts) = MaxForgotPasswordAttempts

MasterUserForgotPassword(r) ==
  /\ req[r].pc = "handler" /\ req[r].op = "mu:forgotPassword"
  /\ \E byUsername \in MasterUserPKs \cup {NULL}, byEmail \in MasterUserPKs \cup {NULL} :
       IF \/ byUsername = NULL \/ byEmail = NULL
          \/ ~masteruser[byUsername].exists \/ ~masteruser[byEmail].exists
       THEN Reply(r, 404) /\ UNCHANGED <<cache, dbVars>>
       ELSE IF byUsername # byEmail
       THEN Reply(r, 401) /\ UNCHANGED <<cache, dbVars>>
       ELSE IF ForgotPasswordBlocked(masteruserID(byUsername))
       THEN Reply(r, 429) /\ UNCHANGED <<cache, dbVars>>
       ELSE IF ~masteruser[byUsername].isActive
       THEN Reply(r, 403) /\ UNCHANGED <<cache, dbVars>>
       ELSE /\ masteruser' = [masteruser EXCEPT
                                ![byUsername].forgotPasswordCode = nextCode]
            /\ nextCode' = nextCode + 1
            /\ setCacheValue(ForgotPasswordKey(masteruserID(byUsername)),
                             ForgotPasswordAttemptsNext(masteruserID(byUsername)))
            /\ Reply(r, 202)
            /\ UNCHANGED <<profile, session, edges, nextEdgePK, tokens, nextJti,
                           deletedJtis, revoked>>
  /\ UNCHANGED <<now, ticks, otpHist, hist>>

\* updateMasterUser(where, { password, forgotPasswordCode: undefined }): the
\* update skips undefined values, so the stored code is left as it is.
MasterUserResetPassword(r) ==
  /\ req[r].pc = "handler" /\ req[r].op = "mu:resetPassword"
  /\ \E token \in 1..MaxCode, newPassword \in Passwords, confirmPassword \in Passwords :
       IF ~safeCompare(newPassword, confirmPassword)
       THEN Reply(r, 400) /\ UNCHANGED dbVars
       ELSE IF MasterUserByCode(token) = {}
       THEN Reply(r, 404) /\ UNCHANGED dbVars
       ELSE LET pk == CHOOSE x \in MasterUserByCode(token) : TRUE IN
         IF ~masteruser[pk].isActive
         THEN Reply(r, 403) /\ UNCHANGED dbVars
         ELSE /\ masteruser' = [masteruser EXCEPT
                                  ![pk].password = hashPassword(newPassword)]
              /\ SessionDelete(MasterUserSessions(pk))
              /\ revoked' = revoked \cup IssuedTo(masteruserID(pk))
              /\ Reply(r, 200)
              /\ UNCHANGED <<profile, edges, nextEdgePK, tokens, nextJti, nextCode>>
  /\ UNCHANGED <<now, ticks, cache, otpHist, hist>>

\* Variant: the deactivation empties the Session Store.
deactivateMasterUser_AllSessions(r) ==
  /\ req[r].pc = "handler" /\ req[r].op = "mu:deactivate"
  /\ \E id \in MasterUserIDs :
       IF MasterUserByID(id) = {}
       THEN Reply(r, 404) /\ UNCHANGED dbVars
       ELSE LET pk == CHOOSE x \in MasterUserByID(id) : TRUE IN
            /\ masteruser' = [masteruser EXCEPT ![pk].isActive = FALSE]
            /\ SessionDelete(session)
            /\ revoked' = revoked \cup IssuedTo(id)
            /\ Reply(r, 204)
            /\ UNCHANGED <<profile, edges, nextEdgePK, tokens, nextJti, nextCode>>
  /\ UNCHANGED <<now, ticks, cache, otpHist, hist>>

\* getMasterUserComplete, updateMasterUser({ isActive: false }) and
\* session.delete({ masteruserPK })
deactivateMasterUser(r) ==
  /\ req[r].pc = "handler" /\ req[r].op = "mu:deactivate"
  /\ \E id \in MasterUserIDs :
       IF MasterUserByID(id) = {}
       THEN Reply(r, 404) /\ UNCHANGED dbVars
       ELSE LET pk == CHOOSE x \in MasterUserByID(id) : TRUE IN
            /\ masteruser' = [masteruser EXCEPT ![pk].isActive = FALSE]
            /\ SessionDelete(MasterUserSessions(pk))
            /\ revoked' = revoked \cup IssuedTo(id)
            /\ Reply(r, 204)
            /\ UNCHANGED <<profile, edges, nextEdgePK, tokens, nextJti, nextCode>>
  /\ UNCHANGED <<now, ticks, cache, otpHist, hist>>

\* --------------------------------------------------------- Profile auth
\* addProfileToMasterUser: the edge table after the call
addProfileToMasterUser(mpk, ppk) ==
  IF hasAccessToProfile(masteruserID(mpk), profileID(ppk))
  THEN edges
  ELSE edges \cup {[pk |-> nextEdgePK, masteruserPK |-> mpk,
                    profilePK |-> ppk, order |-> 1]}

\* The object handed to session.save() carries masteruserID and profileID,
\* which are not columns of Session: the row is stored with both foreign
\* keys NULL.
ProfileLoginRow(jwtId, mID, pID) == NewSession(jwtId, NULL, NULL)

ProfileLogin(r) ==
  /\ req[r].pc = "handler" /\ req[r].op = "pr:login"
  /\ \E ppk \in ProfilePKs \cup {NULL}, pw \in Passwords :
       LET found == ppk # NULL /\ profile[ppk].exists
           mus == MasterUserByID(req[r].muSub)
       IN
       IF ~found \/ ~verifyPassword(profile[ppk].password, pw)
       THEN Reply(r, 401) /\ UNCHANGED dbVars
       ELSE IF mus = {}
       THEN Reply(r, 404) /\ UNCHANGED dbVars
       ELSE LET mpk == CHOOSE x \in mus : TRUE IN
         /\ edges' = addProfileToMasterUser(mpk, ppk)
         /\ nextEdgePK' = IF edges' = edges THEN nextEdgePK ELSE nextEdgePK + 1
         /\ IF ~profile[ppk].isActive
            THEN /\ Reply(r, 403)
                 /\ UNCHANGED <<session, tokens, nextJti>>
            ELSE /\ session' = session \cup
                      {ProfileLoginRow(nextJti, req[r].muSub, profileID(ppk))}
                 /\ tokens' = tokens \cup
                      {signJWS(nextJti, profileID(ppk), ProfileTokenMinutes)}
                 /\ nextJti' = nextJti + 1
                 /\ Reply(r, 200)
         /\ UNCHANGED <<masteruser, profile, nextCode, deletedJtis, revoked>>
  /\ UNCHANGED <<now, ticks, cache, otpHist, hist>>

\* Profile login, one awaited operation per step (for the specifications in
\* which logins race for the Ownership Edge).
\* getProfileComplete({ username }) and verifyPassword
ProfileLoginCredentials(r) ==
  /\ req[r].pc = "handler" /\ req[r].op = "pr:login"
  /\ \E ppk \in ProfilePKs \cup {NULL}, pw \in Passwords :
       LET found == ppk # NULL /\ profile[ppk].exists IN
       IF ~found \/ ~verifyPassword(profile[ppk].password, pw)
       THEN Reply(r, 401)
       ELSE req' = [req EXCEPT ![r].pc = "login:masteruser",
                                ![r].loc.ppk = ppk,
                                ![r].loc.verified =
                                  verifyPassword(profile[ppk].password, pw),
                                ![r].loc.active = profile[ppk].isActive]
  /\ UNCHANGED <<now, ticks, cache, dbVars, otpHist, hist>>

\* getMasterUserComplete({ masteruserID })
ProfileLoginMasterUser(r) ==
  /\ req[r].pc = "login:masteruser"
  /\ IF MasterUserByID(req[r].muSub) = {}
     THEN Reply(r, 404)
     ELSE req' = [req EXCEPT
                    ![r].pc = "login:access",
                    ![r].loc.pk = CHOOSE pk \in MasterUserByID(req[r].muSub) : TRUE]
  /\ UNCHANGED <<now, ticks, cache, dbVars, otpHist, hist>>

\* addProfileToMasterUser: await this.hasAccessToProfile(...); when the edge
\* is found the handler goes on to the isActive check
ProfileLoginAccess(r) ==
  /\ req[r].pc = "login:access"
  /\ LET had == hasAccessToProfile(masteruserID(req[r].loc.pk),
                                   profileID(req[r].loc.ppk))
     IN req' = [req EXCEPT
                  ![r].loc.had = had,
                  ![r].status = IF had /\ ~req[r].loc.active THEN 403 ELSE 0,
                  ![r].pc = IF ~had THEN "login:grant"
                            ELSE IF ~req[r].loc.active THEN "done"
                            ELSE "login:save"]
  /\ UNCHANGED <<now, ticks, cache, dbVars, otpHist, hist>>

\* addProfileToMasterUser when hasAccessToProfile rejects for a reason other
\* than a missing edge (the connection, a timeout): the catch takes every
\* error for "no edge" and goes on to the insert
ProfileLoginAccessFault(r) ==
  /\ req[r].pc = "login:access"
  /\ req' = [req EXCEPT ![r].loc.fault = "store", ![r].pc = "login:grant"]
  /\ UNCHANGED <<now, ticks, cache, dbVars, otpHist, hist>>

\* addProfileToMasterUser, catch branch: manager.save(MasterUserToProfile,
\* { masteruserPK, profilePK, order: 1 }); then the isActive check
ProfileLoginGrant(r) ==
  /\ req[r].pc = "login:grant"
  /\ edges' = edges \cup {[pk |-> nextEdgePK, masteruserPK |-> req[r].loc.pk,
                           profilePK |-> req[r].loc.ppk, order |-> 1]}
  /\ nextEdgePK' = nextEdgePK + 1
  /\ IF ~req[r].loc.active
     THEN Reply(r, 403)
     ELSE req' = [req EXCEPT ![r].pc = "login:save"]
  /\ UNCHANGED <<now, ticks, cache, masteruser, profile, session, tokens,
                 nextJti, nextCode, deletedJtis, revoked, otpHist, hist>>

\* signJWS, session.save(...) and the 200 carrying the jwt
ProfileLoginSave(r) ==
  /\ req[r].pc = "login:save" /\ req[r].op = "pr:login"
  /\ LET pID == profileID(req[r].loc.ppk) IN
       /\ session' = session \cup {ProfileLoginRow(nextJti, req[r].muSub, pID)}
       /\ tokens' = tokens \cup {signJWS(nextJti, pID, ProfileTokenMinutes)}
       /\ nextJti' = nextJti + 1
  /\ Reply(r, 200)
  /\ UNCHANGED <<now, ticks, cache, masteruser, profile, edges, nextEdgePK,
                 nextCode, deletedJtis, revoked, otpHist, hist>>

ProfileLogout(r) ==
  /\ req[r].pc = "handler" /\ req[r].op = "pr:logout"
  /\ SessionDelete(SessionByJti(req[r].prJti))
  /\ Reply(r, 200)
  /\ UNCHANGED <<now, ticks, cache, masteruser, profile, edges, nextEdgePK,
                 tokens, nextJti, nextCode, revoked, otpHist, hist>>

\* The rows a global revocation of Profile pk deletes.
ProfileSessions(pk) == {s \in session : s.profilePK = pk}

ProfileUpdatePassword(r) ==
  /\ req[r].pc = "handler" /\ req[r].op = "pr:updatePassword"
  /\ \E currentPassword \in Passwords, newPassword \in Passwords,
        confirmPassword \in Passwords :
       LET found == ProfileByID(req[r].prSub) IN
       IF found = {}
       THEN Reply(r, 404) /\ UNCHANGED dbVars
       ELSE LET pk == CHOOSE x \in found : TRUE IN
         IF ~verifyPassword(profile[pk].password, currentPassword)
         THEN Reply(r, 401) /\ UNCHANGED dbVars
         ELSE IF ~safeCompare(newPassword, confirmPassword)
         THEN Reply(r, 401) /\ UNCHANGED dbVars
         ELSE /\ profile' = [profile EXCEPT
                               ![pk].password = hashPassword(newPassword)]
              /\ SessionDelete(ProfileSessions(pk))
              /\ revoked' = revoked \cup IssuedTo(profileID(pk))
              /\ Reply(r, 200)
              /\ UNCHANGED <<masteruser, edges, nextEdgePK, tokens, nextJti, nextCode>>
  /\ UNCHANGED <<now, ticks, cache, otpHist, hist>>

ProfileForgotPassword(r) ==
  /\ req[r].pc = "handler" /\ req[r].op = "pr:forgotPassword"
  /\ \E byEmail \in ProfilePKs \cup {NULL} :
       IF byEmail = NULL \/ ~profile[byEmail].exists
       THEN Reply(r, 404) /\ UNCHANGED <<cache, dbVars>>
       ELSE IF ForgotPasswordBlocked(profileID(byEmail))
       THEN Reply(r, 429) /\ UNCHANGED <<cache, dbVars>>
       ELSE IF ~profile[byEmail].isActive
       THEN Reply(r, 403) /\ UNCHANGED <<cache, dbVars>>
       ELSE /\ profile' = [profile EXCEPT ![byEmail].forgotPasswordCode = nextCode]
            /\ nextCode' = nextCode + 1
            /\ setCacheValue(ForgotPasswordKey(profileID(byEmail)),
                             ForgotPasswordAttemptsNext(profileID(byEmail)))
            /\ Reply(r, 202)
            /\ UNCHANGED <<masteruser, session, edges, nextEdgePK, tokens,
                           nextJti, deletedJtis, revoked>>
  /\ UNCHANGED <<now, ticks, otpHist, hist>>

ProfileResetPassword(r) ==
  /\ req[r].pc = "handler" /\ req[r].op = "pr:resetPassword"
  /\ \E token \in 1..MaxCode, newPassword \in Passwords, confirmPassword \in Passwords :
       IF ~safeCompare(newPassword, confirmPassword)
       THEN Reply(r, 400) /\ UNCHANGED dbVars
       ELSE IF ProfileByCode(token) = {}
       THEN Reply(r, 404) /\ UNCHANGED dbVars
       ELSE LET pk == CHOOSE x \in ProfileByCode(token) : TRUE IN
         IF ~profile[pk].isActive
         THEN Reply(r, 403) /\ UNCHANGED dbVars
         ELSE /\ profile' = [profile EXCEPT
                               ![pk].password = hashPassword(newPassword)]
              /\ SessionDelete(ProfileSessions(pk))
              /\ revoked' = revoked \cup IssuedTo(profileID(pk))
              /\ Reply(r, 200)
              /\ UNCHANGED <<masteruser, edges, nextEdgePK, tokens, nextJti, nextCode>>
  /\ UNCHANGED <<now, ticks, cache, otpHist, hist>>

\* ------------------------------------------------------- Profile CRUD
\* createProfile: getMasterUserComplete({ masteruserID }); the body names the
\* username and email of the new Profile (here: the key its row will take).
CreateProfileMasterUser(r) ==
  /\ req[r].pc = "handler" /\ req[r].op = "profile:create"
  /\ \E username \in ProfilePKs :
       IF MasterUserByID(req[r].muSub) = {}
       THEN Reply(r, 404)
       ELSE req' = [req EXCEPT
                      ![r].pc = "create:unique",
                      ![r].loc.ppk = username,
                      ![r].loc.pk = CHOOSE pk \in MasterUserByID(req[r].muSub) : TRUE]
  /\ UNCHANGED <<now, ticks, cache, dbVars, otpHist, hist>>

\* getProfile({ username }) and getProfile({ email }), in parallel
CreateProfileUnique(r) ==
  /\ req[r].pc = "create:unique"
  /\ IF profile[req[r].loc.ppk].exists
     THEN Reply(r, 422)
     ELSE req' = [req EXCEPT ![r].pc = "create:owner"]
  /\ UNCHANGED <<now, ticks, cache, dbVars, otpHist, hist>>

\* services.profile.createProfile: hashPassword, getMasterUserCompleteOrFail
CreateProfileOwner(r) ==
  /\ req[r].pc = "create:owner"
  /\ IF MasterUserByID(masteruserID(req[r].loc.pk)) = {}
     THEN Reply(r, 500)
     ELSE req' = [req EXCEPT ![r].pc = "create:transaction"]
  /\ UNCHANGED <<now, ticks, cache, dbVars, otpHist, hist>>

\* The write of the transaction that fails, if any.
Faults == {"none", "profile", "edge"}

\* Variant: the two saves are issued outside a transaction, one after the
\* other.
createProfileWrites_NoRollback(fault) ==
  IF fault = "none" THEN {"profile", "edge"}
  ELSE IF fault = "edge" THEN {"profile"} ELSE {}

\* db.manager.transaction(save Profile; save MasterUserToProfile): the writes
\* committed; a throw in either save rolls both back.
createProfileWrites(fault) ==
  IF fault = "none" THEN {"profile", "edge"} ELSE {}

\* The transaction; the save of the Profile fails on the unique username when
\* a concurrent createProfile has committed the same one.
CreateProfileTransaction(r) ==
  /\ req[r].pc = "create:transaction"
  /\ \E injected \in Faults, password \in Passwords :
       LET ppk == req[r].loc.ppk
           mpk == req[r].loc.pk
           fault == IF profile[ppk].exists THEN "profile" ELSE injected
           writes == createProfileWrites(fault)
       IN
       /\ profile' = IF "profile" \in writes
                      THEN [profile EXCEPT ![ppk] =
                              [exists |-> TRUE, isActive |-> TRUE,
                               password |-> hashPassword(password),
                               forgotPasswordCode |-> NULL]]
                      ELSE profile
       /\ created' = IF "profile" \in writes
                      THEN created \cup {[profilePK |-> ppk, masteruserPK |-> mpk]}
                      ELSE created
       /\ edges' = IF "edge" \in writes
                    THEN edges \cup {[pk |-> nextEdgePK, masteruserPK |-> mpk,
                                      profilePK |-> ppk, order |-> 1]}
                    ELSE edges
       /\ nextEdgePK' = IF "edge" \in writes THEN nextEdgePK + 1 ELSE nextEdgePK
       /\ req' = [req EXCEPT
                    ![r].loc.fault = fault,
                    ![r].status = IF fault = "none" THEN 0 ELSE 500,
                    ![r].pc = IF fault = "none" THEN "create:read" ELSE "done"]
  /\ UNCHANGED <<now, ticks, cache, masteruser, session, tokens, nextJti,
                 nextCode, deletedJtis, revoked, otpHist, asked, delivered,
                 denials, resetMails>>

\* profile.findOneOrFail({ where: { profilePK } }) and the 201
CreateProfileRead(r) ==
  /\ req[r].pc = "create:read"
  /\ IF profile[req[r].loc.ppk].exists THEN Reply(r, 201) ELSE Reply(r, 500)
  /\ UNCHANGED <<now, ticks, cache, dbVars, otpHist, hist>>

\* PATCH /me/:id: the hasAccessToProfile middleware, then the handler's
\* comparison of the session's Profile with :id
ProfileAccess(r) ==
  /\ req[r].pc = "handler" /\ req[r].op = "profile:update"
  /\ \E id \in ProfileIDs :
       LET owned == hasAccessToProfile(req[r].muSub, req[r].prSub) IN
       req' = [req EXCEPT
                 ![r].loc.owned = owned,
                 ![r].loc.id = id,
                 ![r].status = IF ~owned THEN 404
                               ELSE IF req[r].prSub # id THEN 401 ELSE 0,
                 ![r].pc = IF owned /\ req[r].prSub = id
                           THEN "update:lookup" ELSE "done"]
  /\ IF hasAccessToProfile(req[r].muSub, req[r].prSub)
     THEN UNCHANGED denials
     ELSE Deny(r, Missing(req[r].muSub, req[r].prSub), 404,
               "Masteruser has no access to Profile")
  /\ UNCHANGED <<now, ticks, cache, dbVars, otpHist, asked, delivered, created,
                 resetMails>>

\* updateProfile: getProfileComplete({ profileID: id })
UpdateProfileLookup(r) ==
  /\ req[r].pc = "update:lookup"
  /\ IF ProfileByID(req[r].loc.id) = {}
     THEN Reply(r, 404)
     ELSE req' = [req EXCEPT ![r].pc = "update:write"]
  /\ UNCHANGED <<now, ticks, cache, dbVars, otpHist, hist>>

\* services.profile.updateProfile: profile.update(where, u); update() changes
\* the matching rows only
UpdateProfileWrite(r) ==
  /\ req[r].pc = "update:write"
  /\ \E password \in Passwords :
       profile' = [pk \in ProfilePKs |->
                     IF pk \in ProfileByID(req[r].loc.id)
                     THEN [profile[pk] EXCEPT !.password = hashPassword(password)]
                     ELSE profile[pk]]
  /\ req' = [req EXCEPT ![r].pc = "update:read"]
  /\ UNCHANGED <<now, ticks, cache, masteruser, session, edges, nextEdgePK,
                 tokens, nextJti, nextCode, deletedJtis, revoked, otpHist, hist>>

\* profile.findOneOrFail({ where, select }) and the 200
UpdateProfileRead(r) ==
  /\ req[r].pc = "update:read"
  /\ IF ProfileByID(req[r].loc.id) = {} THEN Reply(r, 500) ELSE Reply(r, 200)
  /\ UNCHANGED <<now, ticks, cache, dbVars, otpHist, hist>>

\* deleteProfile: getMasterUserComplete({ masteruserID })
DeleteProfileMasterUser(r) ==
  /\ req[r].pc = "handler" /\ req[r].op = "profile:delete"
  /\ \E id \in ProfileIDs :
       IF MasterUserByID(req[r].muSub) = {}
       THEN Reply(r, 404)
       ELSE req' = [req EXCEPT
                      ![r].pc = "delete:lookup",
                      ![r].loc.id = id,
                      ![r].loc.pk = CHOOSE pk \in MasterUserByID(req[r].muSub) : TRUE]
  /\ UNCHANGED <<now, ticks, cache, dbVars, otpHist, hist>>

\* getProfileComplete({ profileID: id })
DeleteProfileLookup(r) ==
  /\ req[r].pc = "delete:lookup"
  /\ IF ProfileByID(req[r].loc.id) = {}
     THEN /\ Reply(r, 404)
          /\ Deny(r, "profile", 404, "No profile found with that ID.")
     ELSE /\ req' = [req EXCEPT
                       ![r].pc = "delete:access",
                       ![r].loc.ppk = CHOOSE pk \in ProfileByID(req[r].loc.id) : TRUE]
          /\ UNCHANGED denials
  /\ UNCHANGED <<now, ticks, cache, dbVars, otpHist, asked, delivered, created,
                 resetMails>>

\* hasAccessToProfile(masteruserID, id), then the password of the MasterUser
\* or of the Profile (both as read above)
DeleteProfileAccess(r) ==
  /\ req[r].pc = "delete:access"
  /\ \E passwordOk \in BOOLEAN :
       LET owned == hasAccessToProfile(req[r].muSub, req[r].loc.id) IN
       req' = [req EXCEPT
                 ![r].loc.owned = owned,
                 ![r].status = IF ~owned THEN 404
                               ELSE IF ~passwordOk THEN 401 ELSE 0,
                 ![r].pc = IF owned /\ passwordOk THEN "delete:edges" ELSE "done"]
  /\ IF hasAccessToProfile(req[r].muSub, req[r].loc.id)
     THEN UNCHANGED denials
     ELSE Deny(r, Missing(req[r].muSub, req[r].loc.id), 404,
               "masteruser has no access to Profile")
  /\ UNCHANGED <<now, ticks, cache, dbVars, otpHist, asked, delivered, created,
                 resetMails>>

\* services.profile.deleteProfile: masterUserToProfile.delete({ profilePK })
DeleteProfileEdges(r) ==
  /\ req[r].pc = "delete:edges"
  /\ edges' = {e \in edges : e.profilePK # req[r].loc.ppk}
  /\ req' = [req EXCEPT ![r].pc = "delete:row"]
  /\ UNCHANGED <<now, ticks, cache, masteruser, profile, session, nextEdgePK,
                 tokens, nextJti, nextCode, deletedJtis, revoked, otpHist, hist>>

\* services.profile.deleteProfile: profile.delete({ profileID }), and the 204
DeleteProfileRow(r) ==
  /\ req[r].pc = "delete:row"
  /\ profile' = [pk \in ProfilePKs |->
                   IF pk \in ProfileByID(req[r].loc.id)
                   THEN [profile[pk] EXCEPT !.exists = FALSE]
                   ELSE profile[pk]]
  /\ Reply(r, 204)
  /\ UNCHANGED <<now, ticks, cache, masteruser, session, edges, nextEdgePK,
                 tokens, nextJti, nextCode, deletedJtis, revoked, otpHist, hist>>

\* getProfile: services.profile.getProfile({ profileID: id })
GetProfileLookup(r) ==
  /\ req[r].pc = "handler" /\ req[r].op = "profile:get"
  /\ \E id \in ProfileIDs :
       IF ProfileByID(id) = {}
       THEN /\ Reply(r, 404)
            /\ Deny(r, "profile", 404, "No profile found with that ID.")
       ELSE /\ req' = [req EXCEPT ![r].pc = "get:access", ![r].loc.id = id]
            /\ UNCHANGED denials
  /\ UNCHANGED <<now, ticks, cache, dbVars, otpHist, asked, delivered, created,
                 resetMails>>

\* The status the error handler gives an error that is not an AppError.
UnhandledStatus == 500

\* getProfile: await services.masteruser.hasAccessToProfile(masteruserID, id)
\* outside any try; its EntityNotFoundError leaves the handler
GetProfileAccess(r) ==
  /\ req[r].pc = "get:access"
  /\ IF hasAccessToProfile(req[r].muSub, req[r].loc.id)
     THEN /\ req' = [req EXCEPT ![r].loc.owned = TRUE, ![r].pc = "done",
                                 ![r].status = 200]
          /\ UNCHANGED denials
     ELSE /\ Reply(r, UnhandledStatus)
          /\ Deny(r, Missing(req[r].muSub, req[r].loc.id), UnhandledStatus,
                  "EntityNotFoundError")
  /\ UNCHANGED <<now, ticks, cache, dbVars, otpHist, asked, delivered, created,
                 resetMails>>

\* ----------------------------------------------------------- verifyEmail
\* getMasterUserComplete({ email }), the checks of the code, and
\* updateMasterUser(..., { isActive: true, email, confirmationCode: undefined }):
\* a column whose value is undefined is left out of the UPDATE
VerifyEmail(r) ==
  /\ req[r].pc = "handler" /\ req[r].op = "mu:verifyEmail"
  /\ \E email \in MasterUserPKs \cup {NULL},
        code \in {200 + pk : pk \in MasterUserPKs} \cup {NULL} :
       IF email = NULL \/ ~masteruser[email].exists
       THEN Reply(r, 400) /\ UNCHANGED masteruser
       ELSE IF masteruser[email].confirmationCode = NULL
       THEN Reply(r, 400) /\ UNCHANGED masteruser
       ELSE IF code # masteruser[email].confirmationCode
       THEN Reply(r, 400) /\ UNCHANGED masteruser
       ELSE /\ masteruser' = [masteruser EXCEPT ![email].isActive = TRUE]
            /\ Reply(r, 200)
  /\ UNCHANGED <<now, ticks, cache, profile, session, edges, nextEdgePK,
                 tokens, nextJti, nextCode, deletedJtis, revoked, otpHist, hist>>

\* ------------------------------------------------------ deleteMasterUser
\* getMasterUserComplete({ masteruserID: id })
DeleteMasterUserLookup(r) ==
  /\ req[r].pc = "handler" /\ req[r].op = "mu:delete"
  /\ \E id \in MasterUserIDs :
       IF MasterUserByID(id) = {}
       THEN Reply(r, 404)
       ELSE req' = [req EXCEPT
                      ![r].pc = "mudelete:row",
                      ![r].loc.id = id,
                      ![r].loc.pk = CHOOSE pk \in MasterUserByID(id) : TRUE]
  /\ UNCHANGED <<now, ticks, cache, dbVars, otpHist, hist>>

\* The rows holding a foreign key to MasterUser pk: MasterUserToProfile and
\* Session join on masteruserPK (ManyToOne, no onDelete).
ReferencesMasterUser(pk) ==
  \/ \E e \in edges : e.masteruserPK = pk
  \/ \E s \in session : s.masteruserPK = pk

\* services.masteruser.deleteMasterUser: masteruser.delete({ masteruserID });
\* the database refuses while a row references the MasterUser
DeleteMasterUserRow(r) ==
  /\ req[r].pc = "mudelete:row"
  /\ IF ReferencesMasterUser(req[r].loc.pk)
     THEN Reply(r, UnhandledStatus) /\ UNCHANGED masteruser
     ELSE /\ masteruser' = [masteruser EXCEPT ![req[r].loc.pk].exists = FALSE]
          /\ req' = [req EXCEPT ![r].pc = "mudelete:sessions"]
  /\ UNCHANGED <<now, ticks, cache, profile, session, edges, nextEdgePK,
                 tokens, nextJti, nextCode, deletedJtis, revoked, otpHist, hist>>

\* session.delete({ masteruserPK }), and the 204
DeleteMasterUserSessions(r) ==
  /\ req[r].pc = "mudelete:sessions"
  /\ SessionDelete(MasterUserSessions(req[r].loc.pk))
  /\ Reply(r, 204)
  /\ UNCHANGED <<now, ticks, cache, masteruser, profile, edges, nextEdgePK,
                 tokens, nextJti, nextCode, revoked, otpHist, hist>>

\* ------------------------------------------------------------ TOTP engine
\* RFC 6238 with a 30-second step: the code of a secret changes with every
\* step, and validation tolerates one step of skew either way.
TOTPAt(secret, step) == 10000 * secret + step
generateDefaultTOTP(secret) == TOTPAt(secret, now \div TOTPStep)
validateDefaultTOTP(otp, secret) ==
  \E skew \in {-1, 0, 1} : otp = TOTPAt(secret, (now \div TOTPStep) + skew)

WrongCode == 0    \* a code no secret generates

\* ------------------------------------------------------- cache repository
OTPAttemptsKey(id) == <<"otp-attempts", id>>
BlacklistedOTPKey(id, otp) == <<"blacklisted-otp", id, otp>>
SecurityAlertEmailLockKey(id) == <<"security-alert-email-lock", id>>
OTPSessionKey(jti) == <<"otp-sess", jti>>

getOTPAttempts(id) == getCacheValue(OTPAttemptsKey(id), OTPAttemptsTTL)

\* Variant: the blacklist entry is read with the TOTP step as its lifetime.
getBlacklistedOTP_StepTTL(id, otp) ==
  getCacheValue(BlacklistedOTPKey(id, otp), TOTPStep)

getBlacklistedOTP(id, otp) ==
  getCacheValue(BlacklistedOTPKey(id, otp), BlacklistTTL)

getSecurityAlertEmailLock(id) ==
  getCacheValue(SecurityAlertEmailLockKey(id), SecurityAlertLockTTL)

\* setOTPAttempts(id), the value written for the value read
OTPAttemptsNext(currentAttempts) ==
  IF currentAttempts = NoValue THEN NumToString(1)
  ELSE NumToString(ParseInt(currentAttempts) + 1)

\* ------------------------------------------------------------- verifyOTP
\* Variant: any recorded wrong attempt locks the MasterUser out.
LockedOut_AnyAttempt(attempts) == Truthy(attempts)

\* attempts && Number.parseInt(attempts, 10) === 3
LockedOut(attempts) ==
  Truthy(attempts) /\ ParseInt(attempts) = MaxOTPAttempts

\* History read when a request takes its checks: the wrong submissions
\* recorded less than one counter TTL ago, whether one of them wrote 3, and
\* whether the submitted code was accepted less than one blacklist TTL ago.
RecordedWrongs(id) ==
  {w \in wrongs : w.id = id /\ now - w.at < OTPAttemptsTTL}
ReachedThree(id) ==
  \E w \in RecordedWrongs(id) : w.wrote = MaxOTPAttempts
AcceptedBefore(id, otp) ==
  \E a \in accepts : a.id = id /\ a.otp = otp /\ now - a.at < BlacklistTTL

\* A client sends the code its authenticator shows now, a code that was
\* accepted before, or a wrong code.
SubmittedCodes(username) ==
  {generateDefaultTOTP(masteruser[pk].totpSecret) : pk \in MasterUserByID(username)}
    \cup {a.otp : a \in accepts} \cup {WrongCode}

Busy == {q \in Reqs : req[q].pc \notin {"idle", "done"}}

\* The request arrives in the first free slot (answered requests leave
\* theirs); the Authorization header is checked.
Arrive(r, request) ==
  req' = [q \in Reqs |-> IF q = r THEN request
                         ELSE IF req[q].pc = "done" THEN Idle ELSE req[q]]

VerifyOTPRequest(r) ==
  /\ req[r].pc \in {"idle", "done"}
  /\ \A q \in Reqs : q < r => req[q].pc \notin {"idle", "done"}
  /\ started + Cardinality({q \in Reqs : req[q].pc = "otp:user"}) < MaxRequests
  /\ IF Busy = {} THEN UNCHANGED overlaps
     ELSE overlaps < MaxOverlaps /\ overlaps' = overlaps + 1
  /\ \E authorization \in {"missing", "malformed", "basic"},
        username \in MasterUserIDs :
      \E password \in SubmittedCodes(username) :
       IF authorization # "basic"
       THEN Arrive(r, [Idle EXCEPT !.op = "otp:verify", !.pc = "done",
                                   !.status = 401])
       ELSE Arrive(r, [Idle EXCEPT !.op = "otp:verify", !.pc = "otp:user",
                                   !.loc.id = username, !.loc.otp = password])
  /\ UNCHANGED <<now, ticks, cache, dbVars, started, accepts, wrongs, alerts, hist>>

\* verifyOTP mounted behind hasMasterUserSession ("invoked only on an
\* already-live primary session"): the request first presents its primary
\* token to the middleware.
StepUpStart(r) ==
  /\ req[r].pc \in {"idle", "done"}
  /\ started < MaxRequests
  /\ Arrive(r, [Idle EXCEPT !.op = "otp:verify", !.pc = "mu:lookup"])
  /\ UNCHANGED <<now, ticks, cache, dbVars, otpHist, hist>>

\* verifyOTP behind the middleware: the checks of the Authorization header
VerifyOTPBasic(r) ==
  /\ req[r].pc = "handler" /\ req[r].op = "otp:verify"
  /\ \E authorization \in {"missing", "malformed", "basic"},
        username \in MasterUserIDs :
      \E password \in SubmittedCodes(username) :
       IF authorization # "basic"
       THEN Reply(r, 401)
       ELSE req' = [req EXCEPT ![r].pc = "otp:user",
                                ![r].loc.id = username, ![r].loc.otp = password]
  /\ UNCHANGED <<now, ticks, cache, dbVars, otpHist, hist>>

\* getMasterUserComplete({ masteruserID: username }); a request for a known
\* MasterUser is numbered for the history.
VerifyOTPUser(r) ==
  /\ req[r].pc = "otp:user"
  /\ IF MasterUserByID(req[r].loc.id) = {}
     THEN Reply(r, 404) /\ UNCHANGED started
     ELSE /\ req' = [req EXCEPT
                       ![r].pc = "otp:attempts",
                       ![r].loc.rid = started + 1,
                       ![r].loc.pk = CHOOSE pk \in MasterUserByID(req[r].loc.id) : TRUE]
          /\ started' = started + 1
  /\ UNCHANGED <<now, ticks, cache, dbVars, accepts, wrongs, alerts, overlaps, hist>>

\* getOTPAttempts and the lockout check
VerifyOTPAttempts(r) ==
  /\ req[r].pc = "otp:attempts"
  /\ LET id == req[r].loc.id
         attempts == getOTPAttempts(id)
     IN req' = [req EXCEPT
                  ![r].loc.attempts = attempts,
                  ![r].loc.three = Cardinality(RecordedWrongs(id)) >= MaxOTPAttempts,
                  ![r].loc.hit3 = ReachedThree(id),
                  ![r].loc.replay = AcceptedBefore(id, req[r].loc.otp),
                  ![r].loc.checked = IF LockedOut(attempts) THEN "locked" ELSE "passed",
                  ![r].pc = IF LockedOut(attempts) THEN "otp:lock" ELSE "otp:blacklisted"]
  /\ UNCHANGED <<now, ticks, cache, dbVars, otpHist, hist>>

\* getSecurityAlertEmailLock
VerifyOTPAlertLock(r) ==
  /\ req[r].pc = "otp:lock"
  /\ IF Truthy(getSecurityAlertEmailLock(req[r].loc.id))
     THEN Reply(r, 429)
     ELSE req' = [req EXCEPT ![r].pc = "otp:setlock"]
  /\ UNCHANGED <<now, ticks, cache, dbVars, otpHist, hist>>

\* setSecurityAlertEmailLock
VerifyOTPSetAlertLock(r) ==
  /\ req[r].pc = "otp:setlock"
  /\ setCacheValue(SecurityAlertEmailLockKey(req[r].loc.id), NumToString(1))
  /\ req' = [req EXCEPT ![r].pc = "otp:notify", ![r].loc.at = now]
  /\ UNCHANGED <<now, ticks, dbVars, otpHist, hist>>

\* new Email(...).sendNotification(), then the 429
VerifyOTPNotify(r) ==
  /\ req[r].pc = "otp:notify"
  /\ alerts' = alerts \cup
       {[rid |-> req[r].loc.rid, id |-> req[r].loc.id, at |-> req[r].loc.at,
         attempts |-> ParseInt(req[r].loc.attempts)]}
  /\ Reply(r, 429)
  /\ UNCHANGED <<now, ticks, cache, dbVars, started, accepts, wrongs, overlaps, hist>>

\* Variant: a replayed code is answered 410 without counting as an attempt.
VerifyOTPBlacklisted_ReplayFree(r) ==
  /\ req[r].pc = "otp:blacklisted"
  /\ LET id == req[r].loc.id
         password == req[r].loc.otp
         usedOTP == getBlacklistedOTP(id, password)
         validTOTP == validateDefaultTOTP(password, masteruser[req[r].loc.pk].totpSecret)
     IN req' = [req EXCEPT
                  ![r].loc.replay = AcceptedBefore(id, password),
                  ![r].loc.fail = IF Truthy(usedOTP) THEN 410
                                  ELSE IF ~validTOTP THEN 401 ELSE 0,
                  ![r].status = IF Truthy(usedOTP) THEN 410 ELSE 0,
                  ![r].pc = IF Truthy(usedOTP) THEN "done"
                            ELSE IF ~validTOTP THEN "otp:attempts:read"
                            ELSE "otp:blacklist"]
  /\ UNCHANGED <<now, ticks, cache, dbVars, otpHist, hist>>

\* getBlacklistedOTP, then validateDefaultTOTP on the same turn
VerifyOTPBlacklisted(r) ==
  /\ req[r].pc = "otp:blacklisted"
  /\ LET id == req[r].loc.id
         password == req[r].loc.otp
         usedOTP == getBlacklistedOTP(id, password)
         validTOTP == validateDefaultTOTP(password, masteruser[req[r].loc.pk].totpSecret)
     IN req' = [req EXCEPT
                  ![r].loc.replay = AcceptedBefore(id, password),
                  ![r].loc.fail = IF Truthy(usedOTP) THEN 410
                                  ELSE IF ~validTOTP THEN 401 ELSE 0,
                  ![r].pc = IF Truthy(usedOTP) \/ ~validTOTP
                            THEN "otp:attempts:read" ELSE "otp:blacklist"]
  /\ UNCHANGED <<now, ticks, cache, dbVars, otpHist, hist>>

\* setOTPAttempts: const currentAttempts = await getCacheValue(...)
setOTPAttemptsRead(r) ==
  /\ req[r].pc = "otp:attempts:read"
  /\ req' = [req EXCEPT ![r].loc.cur = getOTPAttempts(req[r].loc.id),
                         ![r].pc = "otp:attempts:write"]
  /\ UNCHANGED <<now, ticks, cache, dbVars, otpHist, hist>>

\* Variant: the handler answers without awaiting the counter write.
setOTPAttemptsWrite_Unawaited(r) ==
  /\ req[r].pc = "otp:attempts:write"
  /\ Reply(r, req[r].loc.fail)
  /\ UNCHANGED <<now, ticks, cache, dbVars, otpHist, hist>>

\* setOTPAttempts: setCacheValue(key, '1' or the incremented value), then the
\* 410 / 401 of the handler
setOTPAttemptsWrite(r) ==
  /\ req[r].pc = "otp:attempts:write"
  /\ LET value == OTPAttemptsNext(req[r].loc.cur) IN
       /\ setCacheValue(OTPAttemptsKey(req[r].loc.id), value)
       /\ wrongs' = wrongs \cup
            {[rid |-> req[r].loc.rid, id |-> req[r].loc.id, at |-> now,
              wrote |-> ParseInt(value)]}
  /\ Reply(r, req[r].loc.fail)
  /\ UNCHANGED <<now, ticks, dbVars, started, accepts, alerts, overlaps, hist>>

\* blacklistOTP(masteruserID, password)
VerifyOTPBlacklist(r) ==
  /\ req[r].pc = "otp:blacklist"
  /\ setCacheValue(BlacklistedOTPKey(req[r].loc.id, req[r].loc.otp), NumToString(1))
  /\ req' = [req EXCEPT ![r].pc = "otp:session", ![r].loc.at = now]
  /\ UNCHANGED <<now, ticks, dbVars, otpHist, hist>>

\* Variant: the step-up session is also saved as a row of the Session Store.
VerifyOTPSession_Persisted(r) ==
  /\ req[r].pc = "otp:session"
  /\ LET jti == 100 + req[r].loc.rid IN
       /\ setCacheValue(OTPSessionKey(jti), NumToString(req[r].loc.id))
       /\ tokens' = tokens \cup {signJWS(jti, req[r].loc.id, StepUpTokenMinutes)}
       /\ session' = session \cup {NewSession(jti, req[r].loc.pk, NULL)}
  /\ accepts' = accepts \cup
       {[rid |-> req[r].loc.rid, id |-> req[r].loc.id, otp |-> req[r].loc.otp,
         at |-> req[r].loc.at]}
  /\ Reply(r, 200)
  /\ UNCHANGED <<now, ticks, masteruser, profile, edges, nextEdgePK,
                 nextJti, nextCode, deletedJtis, revoked, started, wrongs, alerts,
                 overlaps, hist>>

\* nanoid(), signJWS(jti, masteruserID, 900), setOTPSession(jti, masteruserID)
\* and the 200 carrying the step-up token
VerifyOTPSession(r) ==
  /\ req[r].pc = "otp:session"
  /\ LET jti == 100 + req[r].loc.rid IN
       /\ setCacheValue(OTPSessionKey(jti), NumToString(req[r].loc.id))
       /\ tokens' = tokens \cup {signJWS(jti, req[r].loc.id, StepUpTokenMinutes)}
  /\ accepts' = accepts \cup
       {[rid |-> req[r].loc.rid, id |-> req[r].loc.id, otp |-> req[r].loc.otp,
         at |-> req[r].loc.at]}
  /\ Reply(r, 200)
  /\ UNCHANGED <<now, ticks, masteruser, profile, session, edges, nextEdgePK,
                 nextJti, nextCode, deletedJtis, revoked, started, wrongs, alerts,
                 overlaps, hist>>

\* --------------------------------------------------------------- sendOTP
AskedOTPKey(id) == <<"asked-otp", id>>

\* Variant: the asked-otp entry is read with a lifetime one second short.
getHasAskedOTP_Short(id) == getCacheValue(AskedOTPKey(id), AskedOTPTTL - 1)

getHasAskedOTP(id) == getCacheValue(AskedOTPKey(id), AskedOTPTTL)

\* History read when a request takes the throttle check: whether a sendOTP of
\* the MasterUser was answered 202 less than 30 seconds ago, and whether every
\* such answer is at least 30 seconds old.
AskedRecently(id) == \E a \in asked : a.id = id /\ now - a.at < AskedOTPTTL
AskedExpired(id) ==
  /\ \E a \in asked : a.id = id
  /\ \A a \in asked : a.id = id => now - a.at >= AskedOTPTTL

Media == {"email", "sms", "authenticator"}

\* The request has passed hasMasterUserSession (the handler reads the
\* MasterUser from the session) and the validation of ?media=.
SendOTPRequest(r) ==
  /\ req[r].pc \in {"idle", "done"}
  /\ \A q \in Reqs : q < r => req[q].pc \notin {"idle", "done"}
  /\ started < MaxRequests
  /\ IF Busy = {} THEN UNCHANGED overlaps
     ELSE overlaps < MaxOverlaps /\ overlaps' = overlaps + 1
  /\ \E id \in MasterUserIDs, media \in Media :
       Arrive(r, [Idle EXCEPT !.op = "otp:send", !.pc = "send:user",
                              !.muSub = id, !.loc.id = id,
                              !.loc.media = media, !.loc.rid = started + 1])
  /\ started' = started + 1
  /\ UNCHANGED <<now, ticks, cache, dbVars, accepts, wrongs, alerts, hist>>

\* getMasterUserComplete({ masteruserID })
SendOTPUser(r) ==
  /\ req[r].pc = "send:user"
  /\ IF MasterUserByID(req[r].loc.id) = {}
     THEN Reply(r, 404)
     ELSE req' = [req EXCEPT
                    ![r].pc = "send:asked",
                    ![r].loc.pk = CHOOSE pk \in MasterUserByID(req[r].loc.id) : TRUE]
  /\ UNCHANGED <<now, ticks, cache, dbVars, otpHist, hist>>

\* Variant: an sms request goes on to arm the throttle and is answered 202.
SendOTPAsked_SmsSilent(r) ==
  /\ req[r].pc = "send:asked"
  /\ LET id == req[r].loc.id
         throttled == Truthy(getHasAskedOTP(id))
         totp == generateDefaultTOTP(masteruser[req[r].loc.pk].totpSecret)
         media == req[r].loc.media
     IN req' = [req EXCEPT
                  ![r].loc.recent = AskedRecently(id),
                  ![r].loc.expired = AskedExpired(id),
                  ![r].loc.checked = IF throttled THEN "throttled" ELSE "passed",
                  ![r].loc.otp = IF throttled THEN 0 ELSE totp,
                  ![r].status = IF throttled THEN 429 ELSE 0,
                  ![r].pc = IF throttled THEN "done"
                            ELSE IF media = "email" THEN "send:mail"
                            ELSE "send:set"]
  /\ UNCHANGED <<now, ticks, cache, dbVars, otpHist, hist>>

\* getHasAskedOTP and the 429; then, on the same turn, generateDefaultTOTP and
\* the choice of the medium (sms answers 501 before the throttle is armed)
SendOTPAsked(r) ==
  /\ req[r].pc = "send:asked"
  /\ LET id == req[r].loc.id
         throttled == Truthy(getHasAskedOTP(id))
         totp == generateDefaultTOTP(masteruser[req[r].loc.pk].totpSecret)
         media == req[r].loc.media
     IN req' = [req EXCEPT
                  ![r].loc.recent = AskedRecently(id),
                  ![r].loc.expired = AskedExpired(id),
                  ![r].loc.checked = IF throttled THEN "throttled" ELSE "passed",
                  ![r].loc.otp = IF throttled THEN 0 ELSE totp,
                  ![r].status = IF throttled THEN 429
                                ELSE IF media = "sms" THEN 501 ELSE 0,
                  ![r].pc = IF throttled \/ media = "sms" THEN "done"
                            ELSE IF media = "email" THEN "send:mail"
                            ELSE "send:set"]
  /\ UNCHANGED <<now, ticks, cache, dbVars, otpHist, hist>>

\* new Email(...).sendOTP(totp.token)
SendOTPMail(r) ==
  /\ req[r].pc = "send:mail"
  /\ delivered' = delivered \cup
       {[rid |-> req[r].loc.rid, id |-> req[r].loc.id, otp |-> req[r].loc.otp,
         at |-> now]}
  /\ req' = [req EXCEPT ![r].pc = "send:set"]
  /\ UNCHANGED <<now, ticks, cache, dbVars, otpHist, asked, created, denials,
                 resetMails>>

\* Variant: a sendOTP answered 202 also clears the wrong-attempt counter.
SendOTPSet_ClearsAttempts(r) ==
  /\ req[r].pc = "send:set"
  /\ cache' = CachePut([k \in DOMAIN cache \ {OTPAttemptsKey(req[r].loc.id)}
                          |-> cache[k]],
                       AskedOTPKey(req[r].loc.id), NumToString(1))
  /\ asked' = asked \cup
       {[rid |-> req[r].loc.rid, id |-> req[r].loc.id, at |-> now]}
  /\ Reply(r, 202)
  /\ UNCHANGED <<now, ticks, dbVars, otpHist, delivered, created, denials,
                 resetMails>>

\* setHasAskedOTP(masteruserID) and the 202
SendOTPSet(r) ==
  /\ req[r].pc = "send:set"
  /\ setCacheValue(AskedOTPKey(req[r].loc.id), NumToString(1))
  /\ asked' = asked \cup
       {[rid |-> req[r].loc.rid, id |-> req[r].loc.id, at |-> now]}
  /\ Reply(r, 202)
  /\ UNCHANGED <<now, ticks, dbVars, otpHist, delivered, created, denials,
                 resetMails>>

\* -------------------------------------------------- infrastructure failures
\* The stages of session validation and of verifyOTP at which the request
\* awaits an operation of the Session Store or of the cache.
StoreStages ==
  {"mu:lookup", "mu:refresh", "pr:lookup", "pr:refresh", "otp:user",
   "otp:attempts", "otp:lock", "otp:setlock", "otp:blacklisted",
   "otp:attempts:read", "otp:attempts:write", "otp:blacklist", "otp:session"}

\* Variant: verifyOTP catches the failure and treats it as a wrong code.
StoreFault_AsInvalid(r) ==
  /\ req[r].pc \in StoreStages
  /\ req' = [req EXCEPT
               ![r].loc.fault = "store",
               ![r].loc.fail = 401,
               ![r].status = IF req[r].op = "otp:verify" THEN 0 ELSE 401,
               ![r].pc = IF req[r].op = "otp:verify" /\ req[r].loc.rid # 0
                         THEN "otp:attempts:read" ELSE "done"]
  /\ UNCHANGED <<now, ticks, cache, dbVars, otpHist, hist>>

\* The awaited operation rejects.  Neither the middleware nor verifyOTP has
\* a try around its awaits: the error leaves the function, nothing after the
\* await runs, and the error handler answers.
StoreFault(r) ==
  /\ req[r].pc \in StoreStages
  /\ req' = [req EXCEPT ![r].loc.fault = "store", ![r].pc = "done",
                         ![r].status = UnhandledStatus]
  /\ UNCHANGED <<now, ticks, cache, dbVars, otpHist, hist>>

\* logout of either kind when session.delete({ jwtId }) rejects: the handler's
\* try has an empty catch, and the response after it is sent all the same.
LogoutDeleteFault(r) ==
  /\ req[r].pc = "handler" /\ req[r].op \in {"mu:logout", "pr:logout"}
  /\ req' = [req EXCEPT ![r].loc.fault = "store", ![r].pc = "done",
                         ![r].status = 200]
  /\ UNCHANGED <<now, ticks, cache, dbVars, otpHist, hist>>

\* -------------------------------------------------------- forgotPassword
\* forgotPassword, one awaited operation per step.  The request has passed
\* the validation of its body.
ForgotPasswordRequest(r) ==
  /\ req[r].pc \in {"idle", "done"}
  /\ \A q \in Reqs : q < r => req[q].pc \notin {"idle", "done"}
  /\ started < MaxRequests
  /\ IF Busy = {} THEN UNCHANGED overlaps
     ELSE overlaps < MaxOverlaps /\ overlaps' = overlaps + 1
  /\ Arrive(r, [Idle EXCEPT !.op = "mu:forgotPassword", !.pc = "forgot:user",
                            !.loc.rid = started + 1])
  /\ started' = started + 1
  /\ UNCHANGED <<now, ticks, cache, dbVars, accepts, wrongs, alerts, hist>>

\* getMasterUserComplete({ username }) and ({ email }), and their pairing
ForgotPasswordUser(r) ==
  /\ req[r].pc = "forgot:user"
  /\ \E byUsername \in MasterUserPKs \cup {NULL}, byEmail \in MasterUserPKs \cup {NULL} :
       IF \/ byUsername = NULL \/ byEmail = NULL
          \/ ~masteruser[byUsername].exists \/ ~masteruser[byEmail].exists
       THEN Reply(r, 404)
       ELSE IF byUsername # byEmail
       THEN Reply(r, 401)
       ELSE req' = [req EXCEPT ![r].pc = "forgot:attempts",
                                ![r].loc.pk = byUsername,
                                ![r].loc.id = masteruserID(byUsername),
                                ![r].loc.active = masteruser[byUsername].isActive]
  /\ UNCHANGED <<now, ticks, cache, dbVars, otpHist, hist>>

\* History read when a request takes the limit check: the reset mails sent to
\* the MasterUser less than one counter TTL ago.
RecentResetMails(id) ==
  {m \in resetMails : m.id = id /\ now - m.at < ForgotPasswordTTL}

\* getForgotPasswordAttempts and the 429; then the isActive check
ForgotPasswordAttempts(r) ==
  /\ req[r].pc = "forgot:attempts"
  /\ LET blocked == ForgotPasswordBlocked(req[r].loc.id) IN
     req' = [req EXCEPT
               ![r].loc.three = Cardinality(RecentResetMails(req[r].loc.id))
                                  >= MaxForgotPasswordAttempts,
               ![r].loc.checked = IF blocked THEN "limited" ELSE "passed",
               ![r].status = IF blocked THEN 429
                             ELSE IF ~req[r].loc.active THEN 403 ELSE 0,
               ![r].pc = IF blocked \/ ~req[r].loc.active THEN "done"
                         ELSE "forgot:code"]
  /\ UNCHANGED <<now, ticks, cache, dbVars, otpHist, hist>>

\* randomBytes() and updateMasterUser({ masteruserID }, { forgotPasswordCode })
ForgotPasswordCode(r) ==
  /\ req[r].pc = "forgot:code"
  /\ masteruser' = [pk \in MasterUserPKs |->
                      IF pk \in MasterUserByID(req[r].loc.id)
                      THEN [masteruser[pk] EXCEPT !.forgotPasswordCode = nextCode]
                      ELSE masteruser[pk]]
  /\ nextCode' = nextCode + 1
  /\ req' = [req EXCEPT ![r].pc = "forgot:mail", ![r].loc.otp = nextCode]
  /\ UNCHANGED <<now, ticks, cache, profile, session, edges, nextEdgePK, tokens,
                 nextJti, deletedJtis, revoked, otpHist, hist>>

\* new Email(...).sendForgotPassword(url)
ForgotPasswordMail(r) ==
  /\ req[r].pc = "forgot:mail"
  /\ resetMails' = resetMails \cup
       {[rid |-> req[r].loc.rid, id |-> req[r].loc.id, code |-> req[r].loc.otp,
         at |-> now]}
  /\ req' = [req EXCEPT ![r].pc = "forgot:attempts:read"]
  /\ UNCHANGED <<now, ticks, cache, dbVars, otpHist, asked, delivered, created,
                 denials>>

\* setForgotPasswordAttempts: const currentAttempts = await getCacheValue(...)
setForgotPasswordAttemptsRead(r) ==
  /\ req[r].pc = "forgot:attempts:read"
  /\ req' = [req EXCEPT
               ![r].loc.cur = getCacheValue(ForgotPasswordKey(req[r].loc.id),
                                            ForgotPasswordTTL),
               ![r].pc = "forgot:attempts:write"]
  /\ UNCHANGED <<now, ticks, cache, dbVars, otpHist, hist>>

\* setForgotPasswordAttempts, the value written for the value read
ForgotPasswordAttemptsValue(currentAttempts) ==
  IF currentAttempts = NoValue THEN NumToString(1)
  ELSE NumToString(ParseInt(currentAttempts) + 1)

\* setForgotPasswordAttempts: setCacheValue(key, value), then the 202
setForgotPasswordAttemptsWrite(r) ==
  /\ req[r].pc = "forgot:attempts:write"
  /\ setCacheValue(ForgotPasswordKey(req[r].loc.id),
                   ForgotPasswordAttemptsValue(req[r].loc.cur))
  /\ Reply(r, 202)
  /\ UNCHANGED <<now, ticks, dbVars, otpHist, hist>>

\* ------------------------------------------------------------------ time
Tick(d) ==
  /\ ticks < MaxTicks
  /\ now' = now + d
  /\ ticks' = ticks + 1
  /\ UNCHANGED <<cache, dbVars, req, otpHist, hist>>


\* A route whose handler only answers (any read-only protected endpoint).
Protected(r) ==
  /\ req[r].pc = "handler"
  /\ req[r].op \in {"mu:protected", "pr:protected"}
  /\ Reply(r, 200)
  /\ UNCHANGED <<now, ticks, cache, dbVars, otpHist, hist>>

\* The response has been sent; the slot serves the next request.
Finish(r) ==
  /\ req[r].pc = "done"
  /\ req' = [req EXCEPT ![r] = Idle]
  /\ UNCHANGED <<now, ticks, cache, dbVars, otpHist, hist>>

\* ------------------------------------------------------- initial states
\* The database after registration of the MasterUsers in c.registered, with
\* the Profiles in c.profiles.  c.owners are the <<masteruserPK, profilePK>>
\* pairs whose Profile was created by that MasterUser (createProfile);
\* c.banned are the Profiles an administrator has set inactive; the
\* MasterUsers in c.loggedIn and the Profiles in c.profileLoggedIn logged in
\* at time 0 and hold their token.  With c.pendingReset, MasterUser 1 and
\* Profile 1 have each asked for a password reset once at time 0
\* (forgotPassword): reset codes 1 and 2 are stored and their attempt counters
\* stand at '1'.
\* register: confirmationCode = randomUUID(), stored with isActive: true
ConfirmationCodeOf(pk) == 200 + pk
SeededMasterUserJti(pk) == 50 + pk
SeededProfileJti(pk) == 60 + pk

Fresh ==
  [registered |-> MasterUserPKs, profiles |-> {1}, banned |-> {},
   owners |-> {}, loggedIn |-> {}, profileLoggedIn |-> {},
   pendingReset |-> FALSE]

InitDB(c) ==
  /\ now = 0
  /\ ticks = 0
  /\ masteruser = [pk \in MasterUserPKs |->
       [exists |-> pk \in c.registered, isActive |-> TRUE,
        password |-> hashPassword("pwA"),
        forgotPasswordCode |-> IF c.pendingReset /\ pk = 1 THEN 1 ELSE NULL,
        confirmationCode |-> ConfirmationCodeOf(pk),
        totpSecret |-> pk]]
  /\ profile = [pk \in ProfilePKs |->
       [exists |-> pk \in c.profiles, isActive |-> pk \notin c.banned,
        password |-> hashPassword("pwA"),
        forgotPasswordCode |-> IF c.pendingReset /\ pk = 1 THEN 2 ELSE NULL]]
  /\ session = {NewSession(SeededMasterUserJti(pk), pk, NULL) : pk \in c.loggedIn}
                 \cup {ProfileLoginRow(SeededProfileJti(pk), NULL, profileID(pk))
                        : pk \in c.profileLoggedIn}
  /\ edges = {[pk |-> 100 + 10 * o[1] + o[2], masteruserPK |-> o[1],
               profilePK |-> o[2], order |-> 1] : o \in c.owners}
  /\ nextEdgePK = 1
  /\ cache = IF c.pendingReset
             THEN [k \in {<<"forgot-password-attempts", masteruserID(1)>>,
                          <<"forgot-password-attempts", profileID(1)>>}
                     |-> [value |-> NumToString(1), updatedAt |-> 0]]
             ELSE <<>>
  /\ tokens = {signJWS(SeededMasterUserJti(pk), masteruserID(pk),
                       MasterUserTokenMinutes) : pk \in c.loggedIn}
                \cup {signJWS(SeededProfileJti(pk), profileID(pk),
                              ProfileTokenMinutes) : pk \in c.profileLoggedIn}
  /\ nextJti = 1
  /\ nextCode = IF c.pendingReset THEN 3 ELSE 1
  /\ req = [r \in Reqs |-> Idle]
  /\ deletedJtis = {}
  /\ revoked = {}
  /\ started = 0
  /\ accepts = {}
  /\ wrongs = {}
  /\ alerts = {}
  /\ overlaps = 0
  /\ asked = {}
  /\ delivered = {}
  /\ created = {[profilePK |-> o[2], masteruserPK |-> o[1]] : o \in c.owners}
  /\ denials = {}
  /\ resetMails = {}

InitWith(registered, pendingReset) ==
  InitDB([Fresh EXCEPT !.registered = registered, !.pendingReset = pendingReset])

Init == InitWith(MasterUserPKs, FALSE)

\* ------------------------------------------------ session specifications
\* Slot 1 serves any request of the specification; slot 2 serves concurrent
\* requests to a protected endpoint, so that session validations interleave
\* with logins, logouts and revocations.
SessionCommon ==
  \/ \E r \in Reqs : MasterUserLookup(r)
  \/ \E r \in Reqs : MasterUserRefresh(r)
  \/ \E r \in Reqs : Protected(r)
  \/ \E r \in Reqs : MasterUserLoginCheck(r)
  \/ \E r \in Reqs : MasterUserLoginSave(r)
  \/ \E r \in Reqs : Finish(r)

\* MasterUser sessions: login, validation, logout and the three revocations.
MasterOps == {"mu:login", "mu:protected", "mu:logout", "mu:updatePassword",
              "mu:resetPassword", "mu:deactivate"}

MasterNext ==
  \/ \E op \in MasterOps : Start(1, op)
  \/ Start(2, "mu:protected")
  \/ SessionCommon
  \/ \E r \in Reqs : MasterUserLogout(r)
  \/ \E r \in Reqs : MasterUserUpdatePassword(r)
  \/ \E r \in Reqs : MasterUserResetPassword(r)
  \/ \E r \in Reqs : deactivateMasterUser(r)
  \/ Tick(MasterUserTokenMinutes * 60)

MasterSpec == InitWith({1}, TRUE) /\ [][MasterNext]_vars

\* Profile sessions under a MasterUser session.
ProfileOps == {"mu:login", "pr:login", "pr:protected", "pr:logout",
               "pr:updatePassword", "pr:resetPassword"}

ProfileNext ==
  \/ \E op \in ProfileOps : Start(1, op)
  \/ Start(2, "pr:protected")
  \/ SessionCommon
  \/ \E r \in Reqs : ProfileLookup(r)
  \/ \E r \in Reqs : ProfileRefresh(r)
  \/ \E r \in Reqs : ProfileLogin(r)
  \/ \E r \in Reqs : ProfileLogout(r)
  \/ \E r \in Reqs : ProfileUpdatePassword(r)
  \/ \E r \in Reqs : ProfileResetPassword(r)
  \/ Tick(ProfileTokenMinutes * 60)

ProfileSpec == InitWith({1}, TRUE) /\ [][ProfileNext]_vars

\* Both kinds of session: login, validation, logout, deactivation, expiry.
SessionOps == {"mu:login", "mu:protected", "mu:logout", "mu:deactivate",
               "pr:login", "pr:protected", "pr:logout"}

SessionNext ==
  \/ \E op \in SessionOps : Start(1, op)
  \/ Start(2, "pr:protected")
  \/ SessionCommon
  \/ \E r \in Reqs : MasterUserLogout(r)
  \/ \E r \in Reqs : deactivateMasterUser(r)
  \/ \E r \in Reqs : ProfileLookup(r)
  \/ \E r \in Reqs : ProfileRefresh(r)
  \/ \E r \in Reqs : ProfileLogin(r)
  \/ \E r \in Reqs : ProfileLogout(r)
  \/ Tick(MasterUserTokenMinutes * 60)

SessionSpec == InitWith({1}, FALSE) /\ [][SessionNext]_vars

\* Logins of MasterUser 1 concurrent with its password changes.  MasterUser 1
\* is logged in and has asked for a password reset.
CredentialOps == {"mu:login", "mu:updatePassword", "mu:resetPassword"}

CredentialNext ==
  \/ \E r \in Reqs : \E op \in CredentialOps : Start(r, op)
  \/ \E r \in Reqs : MasterUserLookup(r)
  \/ \E r \in Reqs : MasterUserRefresh(r)
  \/ \E r \in Reqs : MasterUserLoginCheck(r)
  \/ \E r \in Reqs : MasterUserLoginSave(r)
  \/ \E r \in Reqs : MasterUserUpdatePassword(r)
  \/ \E r \in Reqs : MasterUserResetPassword(r)
  \/ \E r \in Reqs : Finish(r)

CredentialSpec ==
  InitDB([Fresh EXCEPT !.registered = {1}, !.loggedIn = {1},
                       !.pendingReset = TRUE])
    /\ [][CredentialNext]_vars

\* An administrator (MasterUser 1, logged in) deactivates MasterUsers in
\* slot 1; the open routes are called in slot 2.
ReactivateOps == {"mu:verifyEmail", "mu:login",
                  "mu:forgotPassword", "mu:resetPassword"}

ReactivateNext ==
  \/ Start(1, "mu:deactivate")
  \/ \E op \in ReactivateOps : Start(2, op)
  \/ \E r \in Reqs : MasterUserLookup(r)
  \/ \E r \in Reqs : MasterUserRefresh(r)
  \/ \E r \in Reqs : deactivateMasterUser(r)
  \/ \E r \in Reqs : VerifyEmail(r)
  \/ \E r \in Reqs : MasterUserLoginCheck(r)
  \/ \E r \in Reqs : MasterUserLoginSave(r)
  \/ \E r \in Reqs : MasterUserForgotPassword(r)
  \/ \E r \in Reqs : MasterUserResetPassword(r)
  \/ \E r \in Reqs : Finish(r)

ReactivateSpec == InitDB([Fresh EXCEPT !.loggedIn = {1}]) /\ [][ReactivateNext]_vars

\* Several devices: logins and logouts of the MasterUsers in both slots.
DevicesNext ==
  \/ \E r \in Reqs : \E op \in {"mu:login", "mu:logout"} : Start(r, op)
  \/ \E r \in Reqs : MasterUserLookup(r)
  \/ \E r \in Reqs : MasterUserRefresh(r)
  \/ \E r \in Reqs : MasterUserLoginCheck(r)
  \/ \E r \in Reqs : MasterUserLoginSave(r)
  \/ \E r \in Reqs : MasterUserLogout(r)
  \/ \E r \in Reqs : Finish(r)

DevicesSpec == Init /\ [][DevicesNext]_vars

\* deleteProfile and deleteMasterUser.  MasterUser 1 is logged in and has
\* created Profile 1; MasterUser 2 has no session and owns nothing.
DeleteOps == {"profile:delete", "mu:delete"}

DeleteNext ==
  \/ \E r \in Reqs : \E op \in DeleteOps : Start(r, op)
  \/ \E r \in Reqs : MasterUserLookup(r)
  \/ \E r \in Reqs : MasterUserRefresh(r)
  \/ \E r \in Reqs : DeleteProfileMasterUser(r)
  \/ \E r \in Reqs : DeleteProfileLookup(r)
  \/ \E r \in Reqs : DeleteProfileAccess(r)
  \/ \E r \in Reqs : DeleteProfileEdges(r)
  \/ \E r \in Reqs : DeleteProfileRow(r)
  \/ \E r \in Reqs : DeleteMasterUserLookup(r)
  \/ \E r \in Reqs : DeleteMasterUserRow(r)
  \/ \E r \in Reqs : DeleteMasterUserSessions(r)
  \/ \E r \in Reqs : Finish(r)

DeleteSpec ==
  InitDB([Fresh EXCEPT !.loggedIn = {1}, !.owners = {<<1, 1>>}])
    /\ [][DeleteNext]_vars

\* Session validations of both kinds, with logouts in between.  Both
\* MasterUsers and Profile 1 are logged in; the clock moves by a second.
RefreshOps == {"mu:protected", "pr:protected", "mu:logout"}

RefreshNext ==
  \/ \E r \in Reqs : \E op \in RefreshOps : Start(r, op)
  \/ \E r \in Reqs : MasterUserLookup(r)
  \/ \E r \in Reqs : MasterUserRefresh(r)
  \/ \E r \in Reqs : ProfileLookup(r)
  \/ \E r \in Reqs : ProfileRefresh(r)
  \/ \E r \in Reqs : Protected(r)
  \/ \E r \in Reqs : MasterUserLogout(r)
  \/ \E r \in Reqs : Finish(r)
  \/ Tick(1)

RefreshSpec ==
  InitDB([Fresh EXCEPT !.loggedIn = MasterUserPKs, !.profileLoggedIn = {1}])
    /\ [][RefreshNext]_vars

\* The five global revocations in slot 1, validations of both kinds of
\* session in slot 2.  Both MasterUsers and Profile 1 are logged in, and
\* MasterUser 1 and Profile 1 hold a reset code.  The clock moves once a
\* revocation has deleted the rows of some principal.
RevocationOps == {"mu:updatePassword", "mu:resetPassword", "mu:deactivate",
                  "pr:updatePassword", "pr:resetPassword"}

RevocationNext ==
  \/ \E op \in RevocationOps : Start(1, op)
  \/ \E op \in {"mu:protected", "pr:protected"} : Start(2, op)
  \/ \E r \in Reqs : MasterUserLookup(r)
  \/ \E r \in Reqs : MasterUserRefresh(r)
  \/ \E r \in Reqs : ProfileLookup(r)
  \/ \E r \in Reqs : ProfileRefresh(r)
  \/ \E r \in Reqs : Protected(r)
  \/ \E r \in Reqs : MasterUserUpdatePassword(r)
  \/ \E r \in Reqs : MasterUserResetPassword(r)
  \/ \E r \in Reqs : deactivateMasterUser(r)
  \/ \E r \in Reqs : ProfileUpdatePassword(r)
  \/ \E r \in Reqs : ProfileResetPassword(r)
  \/ \E r \in Reqs : Finish(r)
  \/ (revoked # {} /\ Tick(1))

RevocationSpec ==
  InitDB([Fresh EXCEPT !.loggedIn = MasterUserPKs, !.profileLoggedIn = {1},
                       !.pendingReset = TRUE])
    /\ [][RevocationNext]_vars

\* Logouts of both kinds, any of whose deletes may fail.  Both MasterUsers
\* and Profile 1 (through MasterUser 1) are logged in.
LogoutFaultNext ==
  \/ \E r \in Reqs : \E op \in {"mu:logout", "pr:logout"} : Start(r, op)
  \/ \E r \in Reqs : MasterUserLookup(r)
  \/ \E r \in Reqs : MasterUserRefresh(r)
  \/ \E r \in Reqs : ProfileLookup(r)
  \/ \E r \in Reqs : ProfileRefresh(r)
  \/ \E r \in Reqs : MasterUserLogout(r)
  \/ \E r \in Reqs : ProfileLogout(r)
  \/ \E r \in Reqs : LogoutDeleteFault(r)
  \/ \E r \in Reqs : Finish(r)
  \/ Tick(1)

LogoutFaultSpec ==
  InitDB([Fresh EXCEPT !.loggedIn = MasterUserPKs, !.profileLoggedIn = {1}])
    /\ [][LogoutFaultNext]_vars

\* ------------------------------------------- delegated-access specifications
ProfileLoginSteps ==
  \/ \E r \in Reqs : ProfileLoginCredentials(r)
  \/ \E r \in Reqs : ProfileLoginMasterUser(r)
  \/ \E r \in Reqs : ProfileLoginAccess(r)
  \/ \E r \in Reqs : ProfileLoginGrant(r)
  \/ \E r \in Reqs : ProfileLoginSave(r)

CreateProfileSteps ==
  \/ \E r \in Reqs : CreateProfileMasterUser(r)
  \/ \E r \in Reqs : CreateProfileUnique(r)
  \/ \E r \in Reqs : CreateProfileOwner(r)
  \/ \E r \in Reqs : CreateProfileTransaction(r)
  \/ \E r \in Reqs : CreateProfileRead(r)

\* MasterUsers 1 and 2 are logged in; MasterUser 1 has created Profile 1.
Delegated ==
  [Fresh EXCEPT !.loggedIn = {1, 2}, !.owners = {<<1, 1>>}]

\* Concurrent Profile logins and createProfile calls.
GrantNext ==
  \/ \E r \in Reqs, op \in {"pr:login", "profile:create"} : Start(r, op)
  \/ \E r \in Reqs : MasterUserLookup(r)
  \/ \E r \in Reqs : MasterUserRefresh(r)
  \/ ProfileLoginSteps
  \/ CreateProfileSteps
  \/ \E r \in Reqs : Finish(r)

GrantSpec == InitDB(Delegated) /\ [][GrantNext]_vars

\* The same requests, one after the other.
GrantSeqNext ==
  \/ \E op \in {"pr:login", "profile:create"} : Start(1, op)
  \/ MasterUserLookup(1)
  \/ MasterUserRefresh(1)
  \/ ProfileLoginSteps
  \/ CreateProfileSteps
  \/ Finish(1)

GrantSeqSpec == InitDB(Delegated) /\ [][GrantSeqNext]_vars

\* Profile logins, one after the other, whose edge lookup may fail.
GrantFaultNext ==
  \/ Start(1, "pr:login")
  \/ MasterUserLookup(1)
  \/ MasterUserRefresh(1)
  \/ ProfileLoginSteps
  \/ ProfileLoginAccessFault(1)
  \/ Finish(1)

GrantFaultSpec == InitDB(Delegated) /\ [][GrantFaultNext]_vars

\* Requests scoped to a Profile.  MasterUsers 1 and 2 are logged in;
\* MasterUser 1 has created Profile 1, which logged in under MasterUser 1's
\* session and holds its token.
ScopedOps == {"pr:logout", "pr:updatePassword", "profile:update", "profile:delete"}

ScopeNext ==
  \/ \E op \in ScopedOps : Start(1, op)
  \/ Start(2, "profile:delete")
  \/ \E r \in Reqs : MasterUserLookup(r)
  \/ \E r \in Reqs : MasterUserRefresh(r)
  \/ \E r \in Reqs : ProfileLookup(r)
  \/ \E r \in Reqs : ProfileRefresh(r)
  \/ \E r \in Reqs : ProfileLogout(r)
  \/ \E r \in Reqs : ProfileUpdatePassword(r)
  \/ \E r \in Reqs : ProfileAccess(r)
  \/ \E r \in Reqs : UpdateProfileLookup(r)
  \/ \E r \in Reqs : UpdateProfileWrite(r)
  \/ \E r \in Reqs : UpdateProfileRead(r)
  \/ \E r \in Reqs : DeleteProfileMasterUser(r)
  \/ \E r \in Reqs : DeleteProfileLookup(r)
  \/ \E r \in Reqs : DeleteProfileAccess(r)
  \/ \E r \in Reqs : DeleteProfileEdges(r)
  \/ \E r \in Reqs : DeleteProfileRow(r)
  \/ \E r \in Reqs : Finish(r)

ScopeSpec ==
  InitDB([Delegated EXCEPT !.profileLoggedIn = {1}]) /\ [][ScopeNext]_vars

\* The delegated-access checks.  MasterUsers 1 and 2 are logged in; MasterUser
\* 1 has created Profile 1, which holds a session; Profile 2 does not exist.
\* A deleteProfile in slot 2 runs next to the requests of slot 1.
AccessOps == {"profile:get", "profile:update", "profile:delete"}

AccessNext ==
  \/ \E op \in AccessOps : Start(1, op)
  \/ Start(2, "profile:delete")
  \/ \E r \in Reqs : MasterUserLookup(r)
  \/ \E r \in Reqs : MasterUserRefresh(r)
  \/ \E r \in Reqs : ProfileLookup(r)
  \/ \E r \in Reqs : ProfileRefresh(r)
  \/ \E r \in Reqs : GetProfileLookup(r)
  \/ \E r \in Reqs : GetProfileAccess(r)
  \/ \E r \in Reqs : ProfileAccess(r)
  \/ \E r \in Reqs : UpdateProfileLookup(r)
  \/ \E r \in Reqs : UpdateProfileWrite(r)
  \/ \E r \in Reqs : UpdateProfileRead(r)
  \/ \E r \in Reqs : DeleteProfileMasterUser(r)
  \/ \E r \in Reqs : DeleteProfileLookup(r)
  \/ \E r \in Reqs : DeleteProfileAccess(r)
  \/ \E r \in Reqs : DeleteProfileEdges(r)
  \/ \E r \in Reqs : DeleteProfileRow(r)
  \/ \E r \in Reqs : Finish(r)

AccessSpec ==
  InitDB([Delegated EXCEPT !.profileLoggedIn = {1}]) /\ [][AccessNext]_vars

\* Inactive principals.  MasterUser 1 is logged in and can be deactivated; it
\* has created Profile 1, and MasterUser 2 has created Profile 2.  Profile 1
\* logged in and was then banned (isActive set to false by an
\* administrator), so its Session row and its token are still there.
Banned ==
  [Fresh EXCEPT !.loggedIn = {1}, !.profiles = {1, 2},
                !.owners = {<<1, 1>>, <<2, 2>>},
                !.banned = {1}, !.profileLoggedIn = {1}]

BanOps == {"mu:login", "mu:protected", "mu:deactivate", "pr:login", "pr:protected"}

BanNext ==
  \/ \E op \in BanOps : Start(1, op)
  \/ \E op \in {"mu:protected", "pr:protected"} : Start(2, op)
  \/ SessionCommon
  \/ \E r \in Reqs : deactivateMasterUser(r)
  \/ \E r \in Reqs : ProfileLookup(r)
  \/ \E r \in Reqs : ProfileRefresh(r)
  \/ ProfileLoginSteps

BanSpec == InitDB(Banned) /\ [][BanNext]_vars

\* ---------------------------------------------------- OTP specifications
VerifyOTPSteps ==
  \/ \E r \in Reqs : VerifyOTPUser(r)
  \/ \E r \in Reqs : VerifyOTPAttempts(r)
  \/ \E r \in Reqs : VerifyOTPAlertLock(r)
  \/ \E r \in Reqs : VerifyOTPSetAlertLock(r)
  \/ \E r \in Reqs : VerifyOTPNotify(r)
  \/ \E r \in Reqs : VerifyOTPBlacklisted(r)
  \/ \E r \in Reqs : setOTPAttemptsRead(r)
  \/ \E r \in Reqs : setOTPAttemptsWrite(r)
  \/ \E r \in Reqs : VerifyOTPBlacklist(r)
  \/ \E r \in Reqs : VerifyOTPSession(r)

\* Concurrent verifyOTP requests.  The lifetimes of the security-alert lock
\* and of the wrong-attempt counter are long against the duration of a
\* request: the clock moves by one of them between requests.
OTPNext ==
  \/ \E r \in Reqs : VerifyOTPRequest(r)
  \/ VerifyOTPSteps
  \/ \E d \in {SecurityAlertLockTTL, OTPAttemptsTTL} : Busy = {} /\ Tick(d)

OTPSpec == InitWith({1}, FALSE) /\ [][OTPNext]_vars

\* verifyOTP requests one after the other; the clock moves by one TOTP step or
\* by the lifetime of a blacklist entry.
OTPSeqNext ==
  \/ VerifyOTPRequest(1)
  \/ VerifyOTPSteps
  \/ \E d \in {TOTPStep, BlacklistTTL} : Tick(d)

OTPSeqSpec == InitWith({1}, FALSE) /\ [][OTPSeqNext]_vars

\* verifyOTP requests one after the other from a client that never mistypes:
\* it submits the code its authenticator shows or a code accepted before.
\* The clock moves by one TOTP step.
ReplayNext ==
  \/ (VerifyOTPRequest(1) /\ req'[1].loc.otp # WrongCode)
  \/ VerifyOTPSteps
  \/ Tick(TOTPStep)

ReplaySpec == InitWith({1}, FALSE) /\ [][ReplayNext]_vars

\* verifyOTP behind hasMasterUserSession, one request after the other.
\* MasterUsers 1 and 2 are registered; only MasterUser 2 is logged in.
StepUpNext ==
  \/ StepUpStart(1)
  \/ MasterUserLookup(1)
  \/ MasterUserRefresh(1)
  \/ VerifyOTPBasic(1)
  \/ VerifyOTPSteps

StepUpSpec == InitDB([Fresh EXCEPT !.loggedIn = {2}]) /\ [][StepUpNext]_vars

\* verifyOTP requests one after the other in slot 1; while one is in flight
\* MasterUser 1, who is logged in, calls a protected endpoint in slot 2.  The
\* clock moves between requests.
StepUpFrameNext ==
  \/ VerifyOTPRequest(1)
  \/ VerifyOTPSteps
  \/ (1 \in Busy /\ Start(2, "mu:protected"))
  \/ MasterUserLookup(2)
  \/ MasterUserRefresh(2)
  \/ Protected(2)
  \/ \E d \in {TOTPStep, BlacklistTTL} : Busy = {} /\ Tick(d)

StepUpFrameSpec ==
  InitDB([Fresh EXCEPT !.registered = {1}, !.loggedIn = {1}])
    /\ [][StepUpFrameNext]_vars

\* The same requests, any of whose store or cache operations may fail.
FaultNext ==
  \/ VerifyOTPRequest(1)
  \/ VerifyOTPSteps
  \/ (1 \in Busy /\ Start(2, "mu:protected"))
  \/ MasterUserLookup(2)
  \/ MasterUserRefresh(2)
  \/ Protected(2)
  \/ \E r \in Reqs : StoreFault(r)

FaultSpec ==
  InitDB([Fresh EXCEPT !.registered = {1}, !.loggedIn = {1}])
    /\ [][FaultNext]_vars

\* sendOTP requests, concurrent ones included; the clock moves by the lifetime
\* of the asked-otp entry or by one second less.
SendOTPNext ==
  \/ \E r \in Reqs : SendOTPRequest(r)
  \/ \E r \in Reqs : SendOTPUser(r)
  \/ \E r \in Reqs : SendOTPAsked(r)
  \/ \E r \in Reqs : SendOTPMail(r)
  \/ \E r \in Reqs : SendOTPSet(r)
  \/ \E d \in {AskedOTPTTL - 1, AskedOTPTTL} : Tick(d)

SendOTPSpec == InitWith({1}, FALSE) /\ [][SendOTPNext]_vars

\* sendOTP among verifyOTP requests of the same MasterUser, so that the
\* wrong-attempt counter, blacklist entries and the security-alert lock are in
\* the cache when a code is asked for; one request after the other.
SendFrameNext ==
  \/ VerifyOTPRequest(1)
  \/ SendOTPRequest(1)
  \/ VerifyOTPSteps
  \/ \E r \in Reqs : SendOTPUser(r)
  \/ \E r \in Reqs : SendOTPAsked(r)
  \/ \E r \in Reqs : SendOTPMail(r)
  \/ \E r \in Reqs : SendOTPSet(r)
  \/ Tick(AskedOTPTTL - 1)

SendFrameSpec == InitWith({1}, FALSE) /\ [][SendFrameNext]_vars

\* forgotPassword requests, concurrent ones included; the clock moves between
\* requests, by the lifetime of the attempt counter or by one second less.
ForgotNext ==
  \/ \E r \in Reqs : ForgotPasswordRequest(r)
  \/ \E r \in Reqs : ForgotPasswordUser(r)
  \/ \E r \in Reqs : ForgotPasswordAttempts(r)
  \/ \E r \in Reqs : ForgotPasswordCode(r)
  \/ \E r \in Reqs : ForgotPasswordMail(r)
  \/ \E r \in Reqs : setForgotPasswordAttemptsRead(r)
  \/ \E r \in Reqs : setForgotPasswordAttemptsWrite(r)
  \/ \E d \in {ForgotPasswordTTL - 1, ForgotPasswordTTL} : Busy = {} /\ Tick(d)

ForgotSpec == InitWith({1}, FALSE) /\ [][ForgotNext]_vars

\* ------------------------------------------------------------ properties
Validated == {r \in Reqs : req[r].acc # "none"}

\* C1: session validation (hasMasterUserSession / hasProfileSession) accepts
\* only if a Session row with the token's jti exists at lookup time; for an
\* existing, active principal with a correctly signed, unexpired token it
\* accepts exactly when that row exists; and a token whose row has been
\* deleted is rejected by every later validation.
C1_TokenSessionCoupling ==
  \A r \in Validated :
    /\ req[r].acc = "accepted" => req[r].chk.row
    /\ (req[r].chk.tokOk /\ req[r].chk.principalOk)
         => (req[r].acc = "accepted" <=> req[r].chk.row)
    /\ req[r].chk.deleted => req[r].acc = "rejected"

\* A Profile token that verifies, for an active Profile, is rejected after its
\* Session row has been deleted.
C1_Witness ==
  \E r \in Validated :
    /\ req[r].mw = "pr" /\ req[r].acc = "rejected"
    /\ req[r].chk.deleted /\ req[r].chk.tokOk /\ req[r].chk.principalOk

\* C2: after MasterUser updatePassword, resetPassword or deactivateMasterUser
\* has completed for P, the Session Store holds no row created for P before
\* the operation, and every token issued to P by an earlier login is rejected
\* by its next validation.
C2_MasterRevocation ==
  /\ \A s \in session : s.jwtId \notin revoked
  /\ \A r \in Validated :
       (req[r].mw = "mu" /\ req[r].chk.revoked) => req[r].acc = "rejected"

\* A token that still verifies is rejected because its MasterUser changed the
\* password (or was deactivated) after the token was issued.
C2_Witness ==
  \E r \in Validated :
    /\ req[r].mw = "mu" /\ req[r].acc = "rejected"
    /\ req[r].chk.revoked /\ req[r].chk.tokOk
    /\ req[r].status \in {401, 403}

\* C3: after Profile updatePassword or resetPassword has completed for P,
\* every token issued to P by an earlier Profile login is rejected by its next
\* validation by hasProfileSession.
C3_ProfileRevocation ==
  \A r \in Validated :
    (req[r].mw = "pr" /\ req[r].chk.revoked) => req[r].acc = "rejected"

Answered == {r \in Reqs : req[r].op = "otp:verify" /\ req[r].pc = "done"}
Minted(r) == \E a \in accepts : a.rid = req[r].loc.rid
Replays == {r \in Answered : req[r].loc.checked # "none" /\ req[r].loc.replay}

\* C4, as claimed: in a sequential run, once verifyOTP has accepted code c for
\* P, every later submission of c for P within the 120-second blacklist TTL
\* is rejected as replayed (410) and mints no step-up token.
C4_ReplayRejectedAsReplayed ==
  \A r \in Replays : req[r].status = 410 /\ ~Minted(r)

\* C4, amended: such a submission mints no step-up token and is rejected: as
\* locked out (429) when the lockout check finds the counter at 3, and as
\* replayed (410) in every other case.
C4_ReplayRejected ==
  \A r \in Replays :
    /\ ~Minted(r)
    /\ req[r].loc.checked = "locked" => req[r].status = 429
    /\ req[r].loc.checked = "passed" => req[r].status = 410

\* A code accepted less than 120 seconds ago, still valid for the TOTP window,
\* is rejected as replayed.
C4_Witness ==
  \E r \in Replays :
    /\ req[r].status = 410
    /\ validateDefaultTOTP(req[r].loc.otp, masteruser[req[r].loc.pk].totpSecret)

\* C5: under any interleaving of concurrent verifyOTP requests carrying the
\* same valid code c for the same principal, at most one request is accepted
\* and at most one step-up token is minted for c within its blacklist TTL.
C5_SingleAcceptance ==
  \A a \in accepts, b \in accepts :
    (a.id = b.id /\ a.otp = b.otp /\ a.rid # b.rid)
      => (a.at - b.at >= BlacklistTTL \/ b.at - a.at >= BlacklistTTL)

Checked == {r \in Reqs : req[r].op = "otp:verify" /\ req[r].loc.checked # "none"}

\* C6: once three wrong OTP submissions have been recorded for P within the
\* counter's TTL, every later verifyOTP for P is rejected as locked out before
\* the replay and TOTP checks run.
C6_LockoutAfterThreeWrongs ==
  \A r \in Checked : req[r].loc.three => req[r].loc.checked = "locked"

\* C7: once the wrong-attempt counter has reached 3, no later verifyOTP for P
\* passes the lockout check until the counter expires, and the counter never
\* takes a value above 3.
C7_LockoutTerminal ==
  /\ \A r \in Checked : req[r].loc.hit3 => req[r].loc.checked = "locked"
  /\ \A id \in MasterUserIDs :
       Truthy(getOTPAttempts(id)) => ParseInt(getOTPAttempts(id)) <= MaxOTPAttempts


\* C8: k wrong submissions for P (k <= 3, counter absent at first, nothing
\* expired), however interleaved, leave the counter at exactly k.
C8_NoLostIncrement ==
  \A id \in MasterUserIDs :
    LET k == Cardinality({w \in wrongs : w.id = id}) IN
    (Busy = {} /\ now < OTPAttemptsTTL /\ k >= 1 /\ k <= MaxOTPAttempts)
      => getOTPAttempts(id) = NumToString(k)

\* C9: at most one security-alert notification is sent while the window of
\* the security-alert lock is open.
C9_SingleAlert ==
  \A a \in alerts, b \in alerts :
    (a.id = b.id /\ a.rid # b.rid)
      => (a.at - b.at >= SecurityAlertLockTTL \/ b.at - a.at >= SecurityAlertLockTTL)

\* C10, as claimed: the request that moves the wrong-attempt counter to 3
\* itself sends the security-alert notification.
C10_ThirdWrongAlerts ==
  \A w \in wrongs :
    w.wrote = MaxOTPAttempts => \E a \in alerts : a.rid = w.rid

\* C10, amended: the request that moves the counter to 3 sends no alert; every
\* alert is sent by another request, one that read the counter at 3 and was
\* rejected as locked out without recording an attempt.
C10_AlertOnLockedRequest ==
  \A a \in alerts :
    /\ a.attempts = MaxOTPAttempts
    /\ \A w \in wrongs : w.rid # a.rid
    /\ \E w \in wrongs : w.id = a.id /\ w.wrote = MaxOTPAttempts

\* The counter was moved to 3 and a later, locked-out request sent the alert.
C10_Witness ==
  \E a \in alerts : \E w \in wrongs :
    w.id = a.id /\ w.wrote = MaxOTPAttempts /\ w.rid < a.rid

Throttled == {r \in Reqs : req[r].op = "otp:send" /\ req[r].loc.checked # "none"}
DeliveredBy(r) == {m \in delivered : m.rid = req[r].loc.rid}
AskedBy(r) == {a \in asked : a.rid = req[r].loc.rid}

\* C11, as claimed: a sendOTP for P that takes the throttle check less than 30
\* seconds after a sendOTP for P was answered 202 is rejected as throttled
\* (429) and delivers no code; one that takes it when every such answer is at
\* least 30 seconds old succeeds (202).
C11_ThrottleThenSuccess ==
  \A r \in Throttled :
    /\ req[r].loc.recent => (req[r].status = 429 /\ DeliveredBy(r) = {})
    /\ (req[r].loc.expired /\ req[r].pc = "done") => req[r].status = 202

\* C11, amended: ... once the entry has expired, the next sendOTP for P over
\* email or authenticator succeeds (202); over sms it is answered 501, delivers
\* no code and does not arm the throttle.
C11_ThrottleThenSuccessByMedia ==
  \A r \in Throttled :
    /\ req[r].loc.recent => (req[r].status = 429 /\ DeliveredBy(r) = {})
    /\ (req[r].loc.expired /\ req[r].pc = "done") =>
         IF req[r].loc.media = "sms"
         THEN req[r].status = 501 /\ DeliveredBy(r) = {} /\ AskedBy(r) = {}
         ELSE req[r].status = 202 /\ AskedBy(r) # {}

\* A sendOTP is throttled 29 seconds after an earlier one succeeded.
C11_Witness ==
  \E r \in Throttled :
    /\ req[r].loc.recent /\ req[r].status = 429
    /\ \E a \in asked : a.id = req[r].loc.id /\ now - a.at = AskedOTPTTL - 1

EdgesOf(mpk, ppk) ==
  {e \in edges : e.masteruserPK = mpk /\ e.profilePK = ppk}
\* Profile logins whose call of addProfileToMasterUser has returned.
Granted ==
  {r \in Reqs : /\ req[r].op = "pr:login"
                /\ \/ req[r].pc = "login:save"
                   \/ req[r].pc = "done" /\ req[r].status \in {200, 403}}

C13_SingleEdge ==
  \A mpk \in MasterUserPKs, ppk \in ProfilePKs :
    Cardinality(EdgesOf(mpk, ppk)) <= 1

\* C14: in every state, a Profile exists exactly when the Ownership Edge to
\* the MasterUser that created it exists, and no edge points to a Profile
\* that does not exist, whichever write of createProfile fails.
C14_CreateProfileAtomic ==
  /\ \A ppk \in ProfilePKs :
       profile[ppk].exists <=>
         \E c \in created : c.profilePK = ppk /\ EdgesOf(c.masteruserPK, ppk) # {}
  /\ \A e \in edges : profile[e.profilePK].exists

\* A createProfile whose second write (the edge) failed was answered 500 while
\* another request is in flight, and neither the Profile nor an edge exists.
C14_Witness ==
  \E r \in Reqs :
    /\ req[r].op = "profile:create" /\ req[r].pc = "done"
    /\ req[r].loc.fault = "edge"
    /\ ~profile[req[r].loc.ppk].exists
    /\ \A e \in edges : e.profilePK # req[r].loc.ppk
    /\ \E q \in Reqs : q # r /\ req[q].pc \notin {"idle", "done"}

\* Requests that have been authorized and carry out their operation.
Proceeding ==
  {r \in Reqs :
     \/ req[r].op \in {"pr:logout", "pr:updatePassword"} /\ req[r].pc = "handler"
     \/ req[r].op = "profile:update"
          /\ req[r].pc \in {"update:lookup", "update:write", "update:read"}
     \/ req[r].op = "profile:delete"
          /\ req[r].pc \in {"delete:edges", "delete:row"}}

\* C15: updateProfile, deleteProfile, Profile updatePassword and Profile
\* logout for Profile P under MasterUser M's session proceed only if an
\* Ownership Edge (M,P) existed when the request was authorized.
C15_ScopedToOwner ==
  \A r \in Proceeding : req[r].loc.owned

Logins == {r \in Reqs : req[r].op \in {"mu:login", "pr:login"}}

LoginPrincipal(r) ==
  IF req[r].op = "mu:login" THEN masteruserID(req[r].loc.pk)
  ELSE profileID(req[r].loc.ppk)
JtisOf(rows) == {s.jwtId : s \in rows}

\* What C17 asks of a step that answers a login request r.
LoginAnswer(r) ==
  IF req'[r].status = 200
  THEN /\ req[r].loc.verified /\ req[r].loc.active
       /\ \E row \in session' \ session :
            /\ session' = session \cup {row}
            /\ row.jwtId \notin JtisOf(session) \cup deletedJtis
            /\ \A t \in tokens : t.jti # row.jwtId
            /\ \E t \in tokens' \ tokens :
                 /\ tokens' = tokens \cup {t}
                 /\ t.jti = row.jwtId /\ t.sub = LoginPrincipal(r)
  ELSE session' = session /\ tokens' = tokens

\* C17: a MasterUser or Profile login is answered 200 only if the password
\* verified and the principal was read as active, and that step adds exactly
\* one Session row, under a jti never used before, and issues exactly one
\* token, carrying that jti; a login answered otherwise adds no Session row
\* and issues no token; and Session rows are added by such steps only.
C17_LoginOutcome ==
  [][/\ \A r \in Logins :
          (req[r].pc # "done" /\ req'[r].pc = "done") => LoginAnswer(r)
     /\ JtisOf(session') \subseteq JtisOf(session)
          \/ \E r \in Logins : req[r].pc # "done" /\ req'[r].pc = "done"
                               /\ req'[r].status = 200]_vars

\* A Profile login was answered 200, and the token issued to the Profile by a
\* login has its Session row.
C17_Witness ==
  \E r \in Logins :
    /\ req[r].op = "pr:login" /\ req[r].pc = "done" /\ req[r].status = 200
    /\ \E t \in tokens : t.sub = LoginPrincipal(r) /\ SessionByJti(t.jti) # {}
                         /\ t.jti < SeededMasterUserJti(1)

Logouts == {r \in Reqs : req[r].op \in {"mu:logout", "pr:logout"} /\ req[r].pc = "done"}

\* C18: a logout answered 200 leaves no Session row under the caller's jti,
\* and a logout whose token (the MasterUser's for the MasterUser logout, the
\* Profile's for the Profile logout) verifies but has lost its Session row to
\* an earlier logout is answered 200 as well, not an error.
C18_LogoutIdempotent ==
  \A r \in Logouts :
    /\ req[r].status = 200 =>
         SessionByJti(IF req[r].op = "mu:logout" THEN req[r].muJti
                      ELSE req[r].prJti) = {}
    /\ ( /\ req[r].mw = (IF req[r].op = "mu:logout" THEN "mu" ELSE "pr")
         /\ req[r].chk.tokOk /\ req[r].chk.deleted ) => req[r].status = 200

\* C19: every Session row has exactly one of masteruserPK and profilePK set,
\* and the key that is set is that of the principal whose login created the
\* row (the subject of the token issued under the row's jti).
C19_SessionPrincipal ==
  \A s \in session :
    /\ (s.masteruserPK # NULL) # (s.profilePK # NULL)
    /\ \A t \in tokens :
         t.jti = s.jwtId =>
           t.sub = (IF s.masteruserPK # NULL THEN masteruserID(s.masteruserPK)
                    ELSE profileID(s.profilePK))

\* C20: verifyOTP mints a step-up token for principal P only if the request
\* carried a valid primary token of P whose Session row existed.
C20_StepUpNeedsPrimarySession ==
  \A r \in Reqs :
    (req[r].op = "otp:verify" /\ Minted(r)) => req[r].muSub = req[r].loc.id

\* The cache keys a step writes, and the verifyOTP requests taking a step.
CacheWrites ==
  {k \in DOMAIN cache' : k \notin DOMAIN cache \/ cache'[k] # cache[k]}
VerifyOTPStepping ==
  {r \in Reqs : /\ req[r].op = "otp:verify"
                /\ req[r].pc \notin {"idle", "done"}
                /\ req'[r] # req[r]}
\* The steps of verifyOTP that lead to the 200.
AcceptingStep(r) ==
  /\ req[r].pc \in {"otp:user", "otp:attempts", "otp:blacklisted",
                     "otp:blacklist", "otp:session"}
  /\ \/ req'[r].pc \in {"otp:attempts", "otp:blacklisted", "otp:blacklist",
                         "otp:session"}
     \/ (req'[r].pc = "done" /\ req'[r].status = 200)

\* C21: no step of verifyOTP creates, updates or deletes a row of the Session
\* Store; and the steps of an accepted request write nothing to the cache but
\* the blacklist entry of the accepted code and, under the jti of the step-up
\* token they mint, the entry otp-sess:{jti} holding the principal's id.
C21_VerifyOTPFrame ==
  [][\A r \in VerifyOTPStepping :
       /\ session' = session
       /\ DOMAIN cache \subseteq DOMAIN cache'
       /\ AcceptingStep(r) =>
            IF req[r].pc = "otp:blacklist"
            THEN CacheWrites = {BlacklistedOTPKey(req[r].loc.id, req[r].loc.otp)}
            ELSE IF req[r].pc = "otp:session"
            THEN \E t \in tokens' \ tokens :
                   /\ CacheWrites = {OTPSessionKey(t.jti)}
                   /\ cache'[OTPSessionKey(t.jti)].value = NumToString(req[r].loc.id)
                   /\ t.sub = req[r].loc.id
            ELSE CacheWrites = {}]_vars

\* A verifyOTP was answered 200 while the Session Store holds the row of the
\* MasterUser's login; the cache holds the blacklist entry and the otp-sess
\* entry of the request.
C21_Witness ==
  \E r \in Answered :
    /\ req[r].status = 200 /\ Minted(r)
    /\ \E s \in session : s.masteruserPK = req[r].loc.pk
    /\ BlacklistedOTPKey(req[r].loc.id, req[r].loc.otp) \in DOMAIN cache
    /\ OTPSessionKey(100 + req[r].loc.rid) \in DOMAIN cache

\* C22: in each operation that performs the delegated-access check (the
\* hasAccessToProfile middleware, getProfile, deleteProfile), a request denied
\* because the Profile does not exist and a request denied because the
\* MasterUser has no Ownership Edge to it get the same failure result.
C22_UniformNoAccess ==
  \A a \in denials, b \in denials :
    (a.op = b.op /\ a.why = "profile" /\ b.why = "edge")
      => (a.status = b.status /\ a.message = b.message)

Limited ==
  {r \in Reqs : req[r].op = "mu:forgotPassword" /\ req[r].loc.checked # "none"}

\* C23: under any interleaving of forgotPassword requests for P, at most 2
\* are honoured (reset code stored, mail sent) within 7200 seconds, and a
\* request that takes the limit check when 2 have been honoured in the last
\* 7200 seconds is rejected with 429.
C23_ForgotPasswordLimit ==
  /\ \A id \in MasterUserIDs :
       Cardinality(RecentResetMails(id)) <= MaxForgotPasswordAttempts
  /\ \A r \in Limited : req[r].loc.three => req[r].status = 429

SmsAnswered ==
  {r \in Reqs : /\ req[r].op = "otp:send" /\ req[r].pc = "done"
                /\ req[r].loc.media = "sms"}

\* C24, as claimed: a sendOTP over sms is answered 501, delivers no code and
\* does not set the asked-otp entry.
C24_SmsNotImplemented ==
  \A r \in SmsAnswered :
    req[r].status = 501 /\ DeliveredBy(r) = {} /\ AskedBy(r) = {}

\* C24, amended: a sendOTP over sms never reports success, delivers no code
\* and does not set the asked-otp entry; it is answered 404 when the MasterUser
\* is not found, 429 when the request is throttled, and 501 otherwise.
C24_SmsNeverSucceeds ==
  \A r \in SmsAnswered :
    /\ DeliveredBy(r) = {} /\ AskedBy(r) = {}
    /\ req[r].status = (IF req[r].loc.checked = "none" THEN 404
                        ELSE IF req[r].loc.checked = "throttled" THEN 429
                        ELSE 501)

\* A sendOTP over sms that was not throttled was answered 501, and the
\* asked-otp entry of its MasterUser is not set.
C24_Witness ==
  \E r \in SmsAnswered :
    /\ req[r].status = 501 /\ req[r].loc.checked = "passed"
    /\ ~Truthy(getHasAskedOTP(req[r].loc.id))

\* The answers of verifyOTP and of the session middleware to the client's own
\* errors: not logged in or session not found (401), wrong code (401), unknown
\* principal (400, 404), inactive (403), replayed code (410), locked out (429).
ClientFailures == {400, 401, 403, 404, 410, 429}

C26_WriteBeforeResponse ==
  [][\A r \in VerifyOTPStepping :
       LET id == req[r].loc.id
           answered == req'[r].pc = "done"
       IN /\ (answered /\ req[r].loc.fail \in {401, 410}
                       /\ req'[r].status = req[r].loc.fail) =>
                \E w \in wrongs' :
                   /\ w.rid = req[r].loc.rid
                   /\ OTPAttemptsKey(id) \in DOMAIN cache'
                   /\ cache'[OTPAttemptsKey(id)].value = NumToString(w.wrote)
                   /\ cache'[OTPAttemptsKey(id)].updatedAt = w.at
          /\ ((answered /\ req'[r].status = 200) \/ tokens' # tokens) =>
                /\ req[r].pc = "otp:session"
                /\ BlacklistedOTPKey(id, req[r].loc.otp) \in DOMAIN cache
                /\ cache[BlacklistedOTPKey(id, req[r].loc.otp)].updatedAt >= req[r].loc.at
                /\ BlacklistedOTPKey(id, req[r].loc.otp) \in DOMAIN cache']_vars

\* A code was accepted and its replay was answered 410: the blacklist entry
\* and the counted attempt of the replay are both in the cache.
C26_Witness ==
  \E r \in Answered :
    /\ req[r].status = 410
    /\ \E w \in wrongs : w.rid = req[r].loc.rid
    /\ Truthy(getOTPAttempts(req[r].loc.id))
    /\ \E a \in accepts :
         a.id = req[r].loc.id /\ a.otp = req[r].loc.otp
           /\ BlacklistedOTPKey(a.id, a.otp) \in DOMAIN cache

\* C27: the step by which a MasterUser login succeeds adds one Session row
\* under a jti that no row and no token had, and removes or changes no other
\* row, so the sessions of a principal live side by side; the step by which a
\* logout succeeds deletes the row of the caller's jti and no other row.
C27_SessionPerDevice ==
  [][\A r \in Reqs :
       /\ ( /\ req[r].op = "mu:login" /\ req[r].pc # "done"
            /\ req'[r].pc = "done" /\ req'[r].status = 200 ) =>
            \E t \in tokens' \ tokens :
               /\ t.jti \notin JtisOf(session) \cup {u.jti : u \in tokens}
               /\ t.sub = masteruserID(req[r].loc.pk)
               /\ session \subseteq session'
               /\ \E s \in session' :
                    /\ session' \ session = {s}
                    /\ s.jwtId = t.jti /\ s.masteruserPK = req[r].loc.pk
       /\ ( /\ req[r].op = "mu:logout" /\ req[r].pc # "done"
            /\ req'[r].pc = "done" /\ req'[r].status = 200 ) =>
            session' = {s \in session : s.jwtId # req[r].muJti}]_vars

\* A logout was answered 200 and its row is gone, while another session of
\* the same MasterUser, created by another login, is live and validates.
C27_Witness ==
  \E r \in Logouts :
    /\ req[r].op = "mu:logout" /\ req[r].status = 200
    /\ SessionByJti(req[r].muJti) = {}
    /\ \E t \in tokens :
         /\ t.sub = req[r].muSub /\ t.jti # req[r].muJti
         /\ SessionByJti(t.jti) # {}
         /\ hasMasterUserSessionStatus(t) = 0

\* The validations writing their refresh, the jti of the token each of them
\* accepted, and the rows of the Session Store under other jtis.
Refreshing ==
  {r \in Reqs : req[r].pc \in {"mu:refresh", "pr:refresh"} /\ req'[r] # req[r]}
RefreshedJti(r) == IF req[r].pc = "mu:refresh" THEN req[r].muJti ELSE req[r].prJti
OtherRows(rows, jti) == {s \in rows : s.jwtId # jti}
RejectedNow ==
  {r \in Reqs : /\ req[r].pc \in {"mu:lookup", "pr:lookup"}
                /\ req'[r].acc = "rejected"}

SendOTPStepping ==
  {r \in Reqs : req'[r].op = "otp:send" /\ req'[r] # req[r]}
VerifyOTPKeys(c, id) ==
  {k \in DOMAIN c : /\ k[1] \in {"otp-attempts", "blacklisted-otp",
                                 "security-alert-email-lock"}
                    /\ k[2] = id}

\* C29: no step of a sendOTP request creates, changes or deletes the
\* wrong-attempt counter, a blacklist entry or the security-alert lock of its
\* MasterUser; and the asked-otp entry is written only by the step that
\* answers a request that was not throttled with 202, so a throttled request
\* leaves the entry, and the time it was written, as it was.
C29_SendOTPFrame ==
  [][\A r \in SendOTPStepping :
       LET id == req'[r].loc.id IN
       /\ VerifyOTPKeys(cache', id) = VerifyOTPKeys(cache, id)
       /\ \A k \in VerifyOTPKeys(cache, id) : cache'[k] = cache[k]
       /\ DOMAIN cache \subseteq DOMAIN cache'
       /\ AskedOTPKey(id) \in CacheWrites =>
            /\ req[r].loc.checked = "passed"
            /\ req'[r].pc = "done" /\ req'[r].status = 202
       /\ req'[r].loc.checked = "throttled" =>
            /\ AskedOTPKey(id) \in DOMAIN cache
            /\ cache'[AskedOTPKey(id)] = cache[AskedOTPKey(id)]]_vars

\* A sendOTP was throttled while the cache holds a wrong-attempt counter and a
\* blacklist entry of its MasterUser, and the asked-otp entry still carries
\* the time of the earlier request.
C29_Witness ==
  \E r \in Throttled :
    /\ req[r].status = 429 /\ req[r].pc = "done"
    /\ Truthy(getOTPAttempts(req[r].loc.id))
    /\ \E k \in VerifyOTPKeys(cache, req[r].loc.id) : k[1] = "blacklisted-otp"
    /\ cache[AskedOTPKey(req[r].loc.id)].updatedAt < now

\* C30: in every state (the createProfile transaction is a single step),
\* every existing Profile has an Ownership Edge to an existing MasterUser, and
\* every Ownership Edge joins an existing MasterUser and an existing Profile.
C30_EveryProfileOwned ==
  /\ \A ppk \in ProfilePKs :
       profile[ppk].exists =>
         \E e \in edges : e.profilePK = ppk /\ masteruser[e.masteruserPK].exists
  /\ \A e \in edges :
       masteruser[e.masteruserPK].exists /\ profile[e.profilePK].exists

\* C31: a MasterUser login writes its Session row only while the password it
\* verified is still the password of the MasterUser: a login that verified
\* the old password before an updatePassword or resetPassword completed does
\* not write its session after the revocation.
C31_NoSessionFromOldPassword ==
  [][\A r \in Reqs :
       ( /\ req[r].op = "mu:login" /\ req[r].pc = "login:save"
         /\ req'[r].pc = "done" /\ req'[r].status = 200 ) =>
         verifyPassword(masteruser[req[r].loc.pk].password, req[r].loc.pw)]_vars

\* C32: no two Session rows share a jti; a jti enters the Session Store only
\* by the step that answers a login with 200; and a jti whose row has been
\* deleted has no row again, whatever refresh was in flight.
C32_RowsOnlyFromLogin ==
  /\ \A s \in session, o \in session : s.jwtId = o.jwtId => s = o
  /\ [][/\ \A s \in session', o \in session' : s.jwtId = o.jwtId => s = o
        /\ JtisOf(session') \subseteq JtisOf(session)
             \/ \E r \in Reqs :
                  /\ req[r].op \in {"mu:login", "pr:login"} /\ req[r].pc # "done"
                  /\ req'[r].pc = "done" /\ req'[r].status = 200
        /\ JtisOf(session') \cap deletedJtis' = {}]_vars

\* A validation accepted a token, a logout deleted the row before the refresh
\* was written, and the request went on: the row has not come back.
C32_Witness ==
  \E r \in Reqs :
    /\ req[r].op \in {"mu:protected", "pr:protected"}
    /\ req[r].muJti # NULL
    /\ req[r].pc \notin {"idle", "mu:lookup", "mu:refresh"}
    /\ req[r].muJti \in deletedJtis
    /\ SessionByJti(req[r].muJti) = {}

\* The wrong submissions recorded for MasterUser id before request number
\* rid, within the lifetime of the counter.
RecordedBefore(id, rid) ==
  {w \in wrongs : w.id = id /\ w.rid < rid /\ now - w.at < OTPAttemptsTTL}

\* C33: in a sequential run whose client submits only the code its
\* authenticator shows or a code accepted before, every rejected code is
\* rejected as replayed (410); the step that rejects it leaves the
\* wrong-attempt counter one above the value it had ('1' when there was none),
\* as the rejection of an invalid code does; and a request that follows three
\* recorded replays is rejected as locked out.
C33_ReplayCountsAsAttempt ==
  /\ \A r \in Checked :
       /\ (req[r].pc = "done" /\ req[r].loc.checked = "passed")
            => req[r].status \in {200, 410}
       /\ Cardinality(RecordedBefore(req[r].loc.id, req[r].loc.rid)) >= MaxOTPAttempts
            => /\ req[r].loc.checked = "locked"
               /\ req[r].pc = "done" => req[r].status = 429
  /\ [][\A r \in VerifyOTPStepping :
          ( /\ req[r].loc.checked = "passed"
            /\ req'[r].pc = "done" /\ req'[r].status \in {401, 410} ) =>
            LET key == OTPAttemptsKey(req[r].loc.id)
                before == getOTPAttempts(req[r].loc.id)
            IN /\ key \in DOMAIN cache'
               /\ cache'[key].updatedAt = now
               /\ cache'[key].value =
                    (IF before = NoValue THEN NumToString(1)
                     ELSE NumToString(ParseInt(before) + 1))]_vars

\* Three replays of an accepted code were recorded and the next request was
\* rejected as locked out.
C33_Witness ==
  \E r \in Answered :
    /\ req[r].status = 429 /\ req[r].loc.checked = "locked"
    /\ Cardinality(RecordedBefore(req[r].loc.id, req[r].loc.rid)) >= MaxOTPAttempts
    /\ \E a \in accepts : a.id = req[r].loc.id

\* C34: the step that rejects a Profile login (unknown Profile or wrong
\* password, unknown MasterUser, inactive Profile) leaves the Ownership Edges
\* as they were, and a Profile login inserts an edge only on its way to a 200.
C34_RejectedLoginNoEdge ==
  [][\A r \in Reqs :
       ( /\ req[r].op = "pr:login" /\ req[r].pc # "done"
         /\ req'[r].pc = "done" /\ req'[r].status # 200 ) => edges' = edges]_vars

\* C35: a MasterUser whose isActive flag is false keeps it false: no
\* verifyEmail, forgotPassword, resetPassword or login sets it back to true.
C35_DeactivationSticks ==
  [][\A pk \in MasterUserPKs :
       (masteruser[pk].exists /\ ~masteruser[pk].isActive)
         => ~masteruser'[pk].isActive]_vars

\* C36: a logout is answered 200 only if, at the moment of the answer, no
\* Session row with the caller's jti remains, also when the delete failed.
C36_LogoutSuccessMeansDeleted ==
  [][\A r \in Reqs :
       ( /\ req[r].op \in {"mu:logout", "pr:logout"} /\ req[r].pc = "handler"
         /\ req'[r].pc = "done" /\ req'[r].status = 200 ) =>
         SessionByJti(IF req[r].op = "mu:logout" THEN req[r].muJti
                      ELSE req[r].prJti)' = {}]_vars

\* The principals whose logins created the rows.
RowPrincipals(rows) ==
  {t.sub : t \in {u \in tokens : \E s \in rows : s.jwtId = u.jti}}

\* C37: a global revocation (password change, password reset, deactivation)
\* that succeeds for principal P deletes only Session rows created by P's
\* logins; every other row and every other principal is left as it is, and
\* the sessions of the others are accepted by their next validation.
C37_RevocationFrame ==
  [][
     /\ \A r \in Reqs :
          ( /\ req[r].op \in RevocationOps /\ req[r].pc = "handler"
            /\ req'[r].pc = "done" /\ req'[r].status \in {200, 204} ) =>
            \E id \in MasterUserIDs \cup ProfileIDs :
              /\ revoked' = revoked \cup IssuedTo(id)
              /\ req[r].op = "mu:updatePassword" => id = req[r].muSub
              /\ req[r].op = "pr:updatePassword" => id = req[r].prSub
              /\ session' \subseteq session
              /\ \A s \in session : s \notin session' => RowPrincipals({s}) = {id}
              /\ \A pk \in MasterUserPKs :
                   masteruserID(pk) # id => masteruser'[pk] = masteruser[pk]
              /\ \A pk \in ProfilePKs :
                   profileID(pk) # id => profile'[pk] = profile[pk]
     /\ \A r \in Reqs :
          ( /\ req[r].pc \in {"mu:lookup", "pr:lookup"} /\ req'[r] # req[r]
            /\ req'[r].chk.tokOk /\ ~req'[r].chk.revoked
            /\ req'[r].chk.principalOk ) => req'[r].acc = "accepted"
    ]_vars

\* MasterUser 2, and nobody else, has been revoked and its row is gone; after
\* that the sessions of MasterUser 1 and of Profile 1 were validated,
\* accepted and refreshed.
C37_Witness ==
  /\ revoked = IssuedTo(masteruserID(2))
  /\ SeededMasterUserJti(2) \in deletedJtis
  /\ now > 0
  /\ \E r \in Reqs :
       /\ req[r].op = "pr:protected"
       /\ req[r].pc = "done" /\ req[r].status = 200
       /\ \E s \in SessionByJti(SeededMasterUserJti(1)) : s.lastActive = now
       /\ \E s \in SessionByJti(SeededProfileJti(1)) : s.lastActive = now

\* C38: a password-reset code is single-use: the resetPassword that succeeds
\* with token t leaves no principal associated with t, so that a later
\* resetPassword with t finds nobody and is rejected.
C38_ResetCodeSingleUse ==
  [][\A r \in Reqs :
       ( /\ req[r].op \in {"mu:resetPassword", "pr:resetPassword"}
         /\ req[r].pc = "handler"
         /\ req'[r].pc = "done" /\ req'[r].status = 200 ) =>
         \E t \in 1..MaxCode :
           IF req[r].op = "mu:resetPassword"
           THEN MasterUserByCode(t) # {} /\ MasterUserByCode(t)' = {}
           ELSE ProfileByCode(t) # {} /\ ProfileByCode(t)' = {}]_vars

\* C39: addProfileToMasterUser inserts an Ownership Edge only when its lookup
\* answered and found no edge (M,P); a lookup that failed for another reason
\* leads to no insert, so no edge is put next to an existing one.
C39_InsertOnlyWhenAbsent ==
  [][\A r \in Reqs :
       (req[r].pc = "login:grant" /\ edges' # edges) =>
         /\ req[r].loc.fault = "none"
         /\ ~hasAccessToProfile(masteruserID(req[r].loc.pk),
                                profileID(req[r].loc.ppk))]_vars

====
